---- MODULE Spec2Model ----
(***************************************************************************)
(* The OpenAir parse iterator (src/src/lib.rs, OpenAirIterator) together   *)
(* with the record recognizer it calls (src/src/record.rs, Record::parse), *)
(* the writer (src/src/lib.rs, write and Airspace::write) and the parsers  *)
(* and writers of altitudes and coordinates.                               *)
(*                                                                         *)
(* A text is the sequence of its characters.  A line of the input is held  *)
(* as what Record::parse takes from it first: the two characters of the    *)
(* record type and the trimmed text after the first space.  An Option<T>   *)
(* is a sequence: <<>> is None and <<v>> is Some(v).                       *)
(***************************************************************************)
EXTENDS Integers, Sequences, FiniteSets, TLC

VARIABLES
    input,              \* the reader's content: the lines of the file
    pos,                \* the reader's cursor: number of lines read so far
    line,               \* OpenAirIterator.line
    use_buffered_line,  \* OpenAirIterator.use_buffered_line
    acc,                \* the local variables of next_airspace
    pc,                 \* "idle": between two pulls; "loop": inside next_airspace
    results,            \* what next() has returned so far, in order
    fed,                \* history: numbers of the input lines taken through the loop body
    mark,               \* history: Len(fed) when the latest pull started
    airspaces,          \* write: the airspaces handed to it
    written_count,      \* write: the airspaces written so far (the index of the loop)
    writer,             \* write: the bytes written so far
    arg,                \* a call of a parser or writer on its own: the argument
    call_text,          \* that call: the text written, or the text to be parsed
    out                 \* that call: the result

parse_vars == <<input, pos, line, use_buffered_line, acc, pc, results, fed, mark>>

write_vars == <<airspaces, written_count, writer>>

call_vars == <<arg, call_text, out>>

vars == <<parse_vars, write_vars, call_vars>>

-----------------------------------------------------------------------------
(* Option<T> *)

None == <<>>

Some(v) == <<v>>

IsSome(o) == o # <<>>

Unwrap(o) == o[1]

\* The concatenation of a sequence of sequences.
RECURSIVE Flatten(_)
Flatten(ss) == IF ss = <<>> THEN <<>> ELSE Head(ss) \o Flatten(Tail(ss))

\* `let name = v;`: the value v under the name that F gives it.
Let(v, F(_)) == F(v)

-----------------------------------------------------------------------------
(* Text: a &str is the sequence of its characters *)

\* The string with these characters (for messages, which are strings).
RECURSIVE Str(_)
Str(cs) ==
    IF cs = <<>> THEN ""
    ELSE IF Len(cs) = 1 THEN cs[1]
    ELSE Str(SubSeq(cs, 1, Len(cs) \div 2)) \o Str(SubSeq(cs, Len(cs) \div 2 + 1, Len(cs)))

\* char::is_whitespace, for the characters of the model.
Whitespace == {" ", "\t", "\r", "\n"}

IsWhitespace(c) == c \in Whitespace

\* The rest of cs from its (n+1)-th character on.
Drop(cs, n) == SubSeq(cs, n + 1, Len(cs))

Take(cs, n) == SubSeq(cs, 1, n)

\* The characters of cs.
CharsOf(cs) == {cs[i] : i \in DOMAIN cs}

\* str::find with a predicate: the number of characters of cs before the
\* first one that is not in S (Len(cs) when there is none).
SpanLen(cs, S) ==
    IF \A i \in DOMAIN cs : cs[i] \in S THEN Len(cs)
    ELSE (CHOOSE i \in DOMAIN cs : cs[i] \notin S /\ \A j \in 1..(i - 1) : cs[j] \in S) - 1

\* The number of characters of cs after the last one that is not in S.
SpanLenEnd(cs, S) ==
    IF \A i \in DOMAIN cs : cs[i] \in S THEN Len(cs)
    ELSE Len(cs) - (CHOOSE i \in DOMAIN cs :
                        cs[i] \notin S /\ \A j \in (i + 1)..Len(cs) : cs[j] \in S)

TrimStart(cs) == Drop(cs, SpanLen(cs, Whitespace))

TrimEnd(cs) == Take(cs, Len(cs) - SpanLenEnd(cs, Whitespace))

Trim(cs) == TrimEnd(TrimStart(cs))

\* The number of characters before the first sep (Len(cs) when there is none).
Find(cs, sep) == SpanLen(cs, CharsOf(cs) \ {sep})

\* str::split: the pieces of cs between the occurrences of sep.
RECURSIVE Split(_, _)
Split(cs, sep) ==
    IF Find(cs, sep) = Len(cs) THEN <<cs>>
    ELSE <<Take(cs, Find(cs, sep))>> \o Split(Drop(cs, Find(cs, sep) + 1), sep)

\* u8::to_ascii_lowercase, on characters.
LowerCase ==
    ("A" :> "a") @@ ("B" :> "b") @@ ("C" :> "c") @@ ("D" :> "d") @@ ("E" :> "e")
    @@ ("F" :> "f") @@ ("G" :> "g") @@ ("H" :> "h") @@ ("I" :> "i") @@ ("J" :> "j")
    @@ ("K" :> "k") @@ ("L" :> "l") @@ ("M" :> "m") @@ ("N" :> "n") @@ ("O" :> "o")
    @@ ("P" :> "p") @@ ("Q" :> "q") @@ ("R" :> "r") @@ ("S" :> "s") @@ ("T" :> "t")
    @@ ("U" :> "u") @@ ("V" :> "v") @@ ("W" :> "w") @@ ("X" :> "x") @@ ("Y" :> "y")
    @@ ("Z" :> "z")

ToLower(cs) ==
    [i \in DOMAIN cs |-> IF cs[i] \in DOMAIN LowerCase THEN LowerCase[cs[i]] ELSE cs[i]]

\* str::eq_ignore_ascii_case against a lower-case word.
EqIgnoreCase(cs, word) == ToLower(cs) = word

Digit ==
    ("0" :> 0) @@ ("1" :> 1) @@ ("2" :> 2) @@ ("3" :> 3) @@ ("4" :> 4)
    @@ ("5" :> 5) @@ ("6" :> 6) @@ ("7" :> 7) @@ ("8" :> 8) @@ ("9" :> 9)

Digits == DOMAIN Digit

DigitChar == <<"0", "1", "2", "3", "4", "5", "6", "7", "8", "9">>

\* Display of an unsigned integer.
RECURSIVE Decimal(_)
Decimal(n) ==
    IF n < 10 THEN <<DigitChar[n + 1]>>
    ELSE Decimal(n \div 10) \o <<DigitChar[(n % 10) + 1]>>

\* Display of a signed integer: the digits of |n| are taken from n itself,
\* so that the least 32-bit integer is written too.
DisplayInt(n) ==
    IF n >= 0 THEN Decimal(n)
    ELSE LET last == (10 - (n % 10)) % 10
             rest == -((n + last) \div 10)
         IN  <<"-">> \o (IF rest = 0 THEN <<>> ELSE Decimal(rest))
                     \o <<DigitChar[last + 1]>>

\* Display with a minimum width, padded with zeros ({:02}, {:03}).
RECURSIVE ZeroPad(_, _)
ZeroPad(cs, width) == IF Len(cs) >= width THEN cs ELSE ZeroPad(<<"0">> \o cs, width)

\* The value of a run of digits, or -1 when a character is no digit or the
\* value exceeds max.
RECURSIVE DigitsValue(_, _, _)
DigitsValue(cs, sofar, max) ==
    IF cs = <<>> THEN sofar
    ELSE IF Head(cs) \notin Digits THEN -1
    ELSE IF sofar > (max - Digit[Head(cs)]) \div 10 THEN -1
    ELSE DigitsValue(Tail(cs), sofar * 10 + Digit[Head(cs)], max)

\* str::parse of an unsigned integer type whose greatest value is max (u8,
\* u16), and of i32 on a run of digits: an optional '+', then at least one
\* digit.  -1 stands for Err.
ParseUnsigned(cs, max) ==
    LET body == IF cs # <<>> /\ Head(cs) = "+" THEN Tail(cs) ELSE cs
    IN  IF body = <<>> THEN -1 ELSE DigitsValue(body, 0, max)

U8Max == 255

U16Max == 65535

I32Max == 2147483647

I32Min == -2147483647 - 1

-----------------------------------------------------------------------------
(* Lines *)

\* The trimmed text of the line with this record type and this data: the
\* two characters of the type, a space and the data; `V X=..` and `V D=..`
\* have the space inside the type.
TrimmedOf(t1, t2, data) ==
    IF t1 = "" THEN <<>>
    ELSE IF t1 = "V" THEN <<"V", " ">> \o data
    ELSE <<t1>> \o (IF t2 = " " THEN <<>> ELSE <<t2>>)
              \o (IF data = <<>> THEN <<>> ELSE <<" ">> \o data)

\* What Record::parse takes from a line before it looks at the record type:
\* the trimmed line, the first two characters of it that are no whitespace
\* (t2 is a space when there is one only, both are empty for a line that
\* trims to nothing) and the trimmed text after the first space.
Lexed(trimmed, t1, t2, data) == [trimmed |-> trimmed, t1 |-> t1, t2 |-> t2, data |-> data]

\* The line with this record type and this data.
Line(t1, t2, data) == Lexed(TrimmedOf(t1, t2, data), t1, t2, data)

\* A line that trims to the empty string (also what the buffer holds after a
\* read of zero bytes).
EmptyLine == Line("", "", <<>>)

\* `trimmed.split_once(' ').map(|x| x.1).unwrap_or("")`
AfterFirstSpace(cs) ==
    IF Find(cs, " ") = Len(cs) THEN <<>> ELSE Drop(cs, Find(cs, " ") + 1)

\* The head of Record::parse on the text of a line.
Lex(text) ==
    LET trimmed == Trim(text)
        chars   == SelectSeq(trimmed, LAMBDA c : ~IsWhitespace(c))
    IN  IF trimmed = <<>> THEN EmptyLine
        ELSE Lexed(trimmed, chars[1], IF Len(chars) >= 2 THEN chars[2] ELSE " ",
                   Trim(AfterFirstSpace(trimmed)))

-----------------------------------------------------------------------------
(* Results of the sub-parsers *)

POk(v) == [ok |-> TRUE, val |-> Some(v), err |-> ""]

PErr(msg) == [ok |-> FALSE, val |-> None, err |-> msg]

-----------------------------------------------------------------------------
(* f32 *)

\* A number that has a finite decimal text: sign, integer part and the
\* digits after the point without trailing zeros.
F32(neg, int, frac) == [kind |-> "num", neg |-> neg, int |-> int, frac |-> frac]

NaN == [kind |-> "nan", neg |-> FALSE, int |-> 0, frac |-> <<>>]

Inf(neg) == [kind |-> "inf", neg |-> neg, int |-> 0, frac |-> <<>>]

\* The f32 of a natural number.
Whole(n) == F32(FALSE, n, <<>>)

RECURSIVE StripZeros(_)
StripZeros(cs) ==
    IF cs # <<>> /\ cs[Len(cs)] = "0" THEN StripZeros(SubSeq(cs, 1, Len(cs) - 1)) ELSE cs



\* <f32 as FromStr>::from_str for the notations of the model: "nan", "inf"
\* and "infinity" in any case, and an optional sign followed by digits with
\* an optional point and more digits (no exponent).
F32Parse(data) ==
    LET signed == data # <<>> /\ Head(data) \in {"+", "-"}
        neg    == data # <<>> /\ Head(data) = "-"
        body   == IF signed THEN Tail(data) ELSE data
        n      == SpanLen(body, Digits)
        int    == IF n = 0 THEN 0 ELSE DigitsValue(Take(body, n), 0, I32Max)
        after  == Drop(body, n)
        frac   == IF after = <<>> THEN <<>> ELSE Tail(after)
    IN  IF EqIgnoreCase(body, <<"n", "a", "n">>) THEN POk(NaN)
        ELSE IF EqIgnoreCase(body, <<"i", "n", "f">>)
                \/ EqIgnoreCase(body, <<"i", "n", "f", "i", "n", "i", "t", "y">>)
        THEN POk(Inf(neg))
        ELSE IF after # <<>> /\ Head(after) # "." THEN PErr("invalid float literal")
        ELSE IF SpanLen(frac, Digits) # Len(frac) THEN PErr("invalid float literal")
        ELSE IF n = 0 /\ frac = <<>> THEN PErr("invalid float literal")
        ELSE IF int < 0 THEN PErr("invalid float literal")
        ELSE POk(F32(neg, int, StripZeros(frac)))

\* Display of an f32.
F32Write(x) ==
    CASE x.kind = "nan" -> <<"N", "a", "N">>
      [] x.kind = "inf" -> (IF x.neg THEN <<"-">> ELSE <<>>) \o <<"i", "n", "f">>
      [] x.kind = "num" -> (IF x.neg THEN <<"-">> ELSE <<>>) \o Decimal(x.int)
                           \o (IF x.frac = <<>> THEN <<>> ELSE <<".">> \o x.frac)

\* x > n for a natural number n: false for NaN.
F32Greater(x, n) ==
    CASE x.kind = "nan" -> FALSE
      [] x.kind = "inf" -> ~x.neg
      [] x.kind = "num" -> ~x.neg /\ (x.int > n \/ (x.int = n /\ x.frac # <<>>))

\* x < 0.0: false for NaN and for -0.0.
F32Negative(x) ==
    CASE x.kind = "nan" -> FALSE
      [] x.kind = "inf" -> x.neg
      [] x.kind = "num" -> x.neg /\ (x.int > 0 \/ x.frac # <<>>)

-----------------------------------------------------------------------------
(* Altitude *)

Gnd == [kind |-> "Gnd"]

FeetAmsl(ft) == [kind |-> "FeetAmsl", val |-> ft]

FeetAgl(ft) == [kind |-> "FeetAgl", val |-> ft]

FlightLevel(fl) == [kind |-> "FlightLevel", val |-> fl]

Unlimited == [kind |-> "Unlimited"]

Other(text) == [kind |-> "Other", text |-> text]

\* Altitude::write
AltitudeWrite(a) ==
    CASE a.kind = "Gnd"         -> <<"G", "N", "D">>
      [] a.kind = "FeetAmsl"    -> DisplayInt(a.val) \o <<"f", "t", " ", "A", "M", "S", "L">>
      [] a.kind = "FeetAgl"     -> DisplayInt(a.val) \o <<"f", "t", " ", "A", "G", "L">>
      [] a.kind = "FlightLevel" -> <<"F", "L">> \o DisplayInt(a.val)
      [] a.kind = "Unlimited"   -> <<"U", "N", "L", "I", "M">>
      [] a.kind = "Other"       -> a.text

\* feet.round() as i32 for a value of val metres.  val / 0.3048 is
\* val * 1250 / 381; 381 is odd, so the quotient is never half-way between
\* two integers, and it is farther than 1/762 from the half-way points while
\* the f64 division is off by less than 1e-6: feet.round() is the integer
\* nearest to the quotient, and `as i32` saturates.  With val = 381 * f + t
\* and 0 <= t < 381 that integer is 1250 * f + r, r the nearest integer to
\* 1250 * t / 381.
FeetOf(val) ==
    LET f    == val \div 381
        x    == (val % 381) * 1250
        r    == (x \div 381) + (IF 2 * (x % 381) > 381 THEN 1 ELSE 0)
        base == 1250 * (f + 1)
    IN  IF f > 1717986 THEN I32Max
        ELSE IF f < -1717987 THEN I32Min
        ELSE IF f >= 0
        THEN IF r > I32Max - 1250 * f THEN I32Max ELSE 1250 * f + r
        ELSE IF r - 1250 < I32Min - base THEN I32Min ELSE base + (r - 1250)

\* Faulty variant of M2ft: every value is converted.
M2ftUnchecked(val) == POk(FeetOf(val))

\* Altitude::m2ft
M2ft(val) ==
    IF val > 654553015 THEN PErr("m2ft out of bounds (too large)")
    ELSE IF val < -654553016 THEN PErr("m2ft out of bounds (too small)")
    ELSE POk(FeetOf(val))

\* strip_prefix_ci(s, "fl")
StripPrefixFl(s) ==
    IF Len(s) >= 2 /\ EqIgnoreCase(Take(s, 2), <<"f", "l">>)
    THEN <<Drop(s, 2)>>
    ELSE <<>>

\* Faulty variant of IsAmslSuffix: MSL is not recognized.
IsAmslSuffixWithoutMsl(s) ==
    \/ s = <<>>
    \/ EqIgnoreCase(s, <<"a", "m", "s", "l">>)

\* is_amsl_suffix
IsAmslSuffix(s) ==
    \/ s = <<>>
    \/ EqIgnoreCase(s, <<"a", "m", "s", "l">>)
    \/ EqIgnoreCase(s, <<"m", "s", "l">>)

\* is_agl_suffix
IsAglSuffix(s) ==
    \/ EqIgnoreCase(s, <<"a", "g", "l">>)
    \/ EqIgnoreCase(s, <<"g", "n", "d">>)
    \/ EqIgnoreCase(s, <<"s", "f", "c">>)

\* Faulty variant of ParseWithUnit: an unknown unit is a failure.
ParseWithUnitStrict(data, number, rest) ==
    Let(SpanLen(rest, CharsOf(rest) \ Whitespace), LAMBDA space_pos :
    Let(Take(rest, space_pos), LAMBDA unit :
    Let(Trim(Drop(rest, space_pos)), LAMBDA reference :
    Let(IF EqIgnoreCase(unit, <<"m">>) THEN M2ft(number) ELSE POk(number), LAMBDA feet :
        IF ~EqIgnoreCase(unit, <<"m">>) /\ ~EqIgnoreCase(unit, <<"f", "t">>)
        THEN PErr("Invalid altitude: " \o Str(data))
        ELSE IF ~feet.ok THEN PErr(feet.err)
        ELSE IF IsAmslSuffix(reference) THEN POk(FeetAmsl(Unwrap(feet.val)))
        ELSE IF IsAglSuffix(reference) THEN POk(FeetAgl(Unwrap(feet.val)))
        ELSE POk(Other(data))))))

\* The feet and metres arm of Altitude::parse: a number, a unit and a
\* reference.
ParseWithUnit(data, number, rest) ==
    Let(SpanLen(rest, CharsOf(rest) \ Whitespace), LAMBDA space_pos :
    Let(Take(rest, space_pos), LAMBDA unit :
    Let(Trim(Drop(rest, space_pos)), LAMBDA reference :
    Let(IF EqIgnoreCase(unit, <<"m">>) THEN M2ft(number) ELSE POk(number), LAMBDA feet :
        IF ~EqIgnoreCase(unit, <<"m">>) /\ ~EqIgnoreCase(unit, <<"f", "t">>)
        THEN POk(Other(data))
        ELSE IF ~feet.ok THEN PErr(feet.err)
        ELSE IF IsAmslSuffix(reference) THEN POk(FeetAmsl(Unwrap(feet.val)))
        ELSE IF IsAglSuffix(reference) THEN POk(FeetAgl(Unwrap(feet.val)))
        ELSE POk(Other(data))))))

\* The arm of Altitude::parse for a text that starts with a number.
ParseNumber(data) ==
    Let(SpanLen(data, Digits), LAMBDA pos_ :
    Let(ParseUnsigned(Take(data, pos_), I32Max), LAMBDA number :
    Let(Trim(Drop(data, pos_)), LAMBDA rest :
        IF pos_ = 0 \/ number < 0 THEN POk(Other(data))
        ELSE IF IsAmslSuffix(rest) THEN POk(FeetAmsl(number))
        ELSE IF IsAglSuffix(rest) THEN POk(FeetAgl(number))
        ELSE ParseWithUnit(data, number, rest))))

\* Altitude::parse
AltitudeParse(data) ==
    IF \/ EqIgnoreCase(data, <<"g", "n", "d">>)
       \/ EqIgnoreCase(data, <<"s", "f", "c">>)
       \/ data = <<"0">>
    THEN POk(Gnd)
    ELSE IF \/ EqIgnoreCase(data, <<"u", "n", "l">>)
            \/ EqIgnoreCase(data, <<"u", "n", "l", "i", "m">>)
            \/ EqIgnoreCase(data, <<"u", "n", "l", "t", "d">>)
            \/ EqIgnoreCase(data, <<"u", "n", "l", "i", "m", "i", "t", "e", "d">>)
    THEN POk(Unlimited)
    ELSE IF StripPrefixFl(data) # <<>>
    THEN Let(ParseUnsigned(Trim(Unwrap(StripPrefixFl(data))), U16Max), LAMBDA fl :
             IF fl >= 0 THEN POk(FlightLevel(fl)) ELSE POk(Other(data)))
    ELSE ParseNumber(data)

-----------------------------------------------------------------------------
(* f64 *)

\* A finite binary64 number: (-1)^neg * m * 2^exp, where `bits` are the 53
\* binary digits of m, most significant first, the first of them 1.  Zero
\* has no digits.  The exponents of the model stay far inside the range of
\* the format.
F64(neg, exp, bits) == [neg |-> neg, exp |-> exp, bits |-> bits]

Zero(neg) == F64(neg, 0, <<>>)

IsZero(x) == x.bits = <<>>

\* The binary digits of a natural number below 2^31.
BitLength(n) == Cardinality({i \in 0..30 : 2^i <= n})

BitsOf(n) == [i \in 1..BitLength(n) |-> (n \div 2^(BitLength(n) - i)) % 2]

Zeros(k) == [i \in 1..k |-> 0]

StripLeading(bits) ==
    IF \A i \in DOMAIN bits : bits[i] = 0 THEN <<>>
    ELSE SubSeq(bits, CHOOSE i \in DOMAIN bits :
                          bits[i] = 1 /\ \A j \in 1..(i - 1) : bits[j] = 0,
                Len(bits))

\* The digits of m + 1.
Increment(bits) ==
    IF \A i \in DOMAIN bits : bits[i] = 1 THEN <<1>> \o Zeros(Len(bits))
    ELSE LET p == CHOOSE i \in DOMAIN bits :
                      bits[i] = 0 /\ \A j \in (i + 1)..Len(bits) : bits[j] = 1
         IN  [i \in DOMAIN bits |-> IF i < p THEN bits[i] ELSE IF i = p THEN 1 ELSE 0]

\* Ten binary digits at a time: the number made of the digits o+1..o+10.
Limb(bits, o) ==
    bits[o + 1] * 512 + bits[o + 2] * 256 + bits[o + 3] * 128 + bits[o + 4] * 64
    + bits[o + 5] * 32 + bits[o + 6] * 16 + bits[o + 7] * 8 + bits[o + 8] * 4
    + bits[o + 9] * 2 + bits[o + 10]

\* A binary number as digits to the base 1024, most significant first.
ToLimbs(bits) ==
    Let(Zeros(10 * ((Len(bits) + 9) \div 10) - Len(bits)) \o bits, LAMBDA padded :
        [j \in 1..(Len(padded) \div 10) |-> Limb(padded, 10 * (j - 1))])

FromLimbs(limbs) ==
    [p \in 1..(10 * Len(limbs)) |->
        (limbs[((p - 1) \div 10) + 1] \div 2^(9 - ((p - 1) % 10))) % 2]

\* The value of a binary number of at most 30 digits.
BitsValue(bits) ==
    Let(Zeros(30 - Len(bits)) \o bits, LAMBDA padded :
        Limb(padded, 0) * 1048576 + Limb(padded, 10) * 1024 + Limb(padded, 20))

\* The binary64 number nearest to m * 2^exp (ties to even), m given by its
\* digits; `sticky` tells that the exact value is a little more than that.
\* An inexact value comes with 55 digits or more.
RoundF64(neg, exp, digits, sticky) ==
    Let(StripLeading(digits), LAMBDA b :
        IF b = <<>> THEN Zero(neg)
        ELSE IF Len(b) <= 53 THEN F64(neg, exp - (53 - Len(b)), b \o Zeros(53 - Len(b)))
        ELSE Let(b[54] = 1 /\ (sticky \/ b[53] = 1 \/ \E i \in 55..Len(b) : b[i] = 1),
                 LAMBDA up :
             Let(IF up THEN Increment(Take(b, 53)) ELSE Take(b, 53), LAMBDA r :
                 IF Len(r) = 54
                 THEN F64(neg, exp + (Len(b) - 53) + 1, Take(r, 53))
                 ELSE F64(neg, exp + (Len(b) - 53), r))))

\* f64::from of a natural number.
FromInt(n) == RoundF64(FALSE, 0, BitsOf(n), FALSE)

Negate(x) == [x EXCEPT !.neg = ~x.neg]

\* Long division by k < 2^20 of a number given to the base 1024: quotient
\* and remainder.
RECURSIVE LongDiv(_, _, _, _)
LongDiv(limbs, k, rem, q) ==
    IF limbs = <<>> THEN [q |-> q, rem |-> rem]
    ELSE LongDiv(Tail(limbs), k, (rem * 1024 + Head(limbs)) % k,
                 Append(q, (rem * 1024 + Head(limbs)) \div k))

\* x / k for a natural number k, 0 < k < 2^20.
DivBy(x, k) ==
    IF IsZero(x) THEN x
    ELSE Let(LongDiv(ToLimbs(x.bits \o Zeros(BitLength(k) + 2)), k, 0, <<>>), LAMBDA d :
             RoundF64(x.neg, x.exp - (BitLength(k) + 2), FromLimbs(d.q), d.rem # 0))

\* The product by k < 2^20 of a number given to the base 1024, plus carry.
RECURSIVE MulLimbs(_, _, _, _)
MulLimbs(limbs, k, carry, done) ==
    IF limbs = <<>> THEN <<carry>> \o done
    ELSE MulLimbs(Take(limbs, Len(limbs) - 1), k,
                  (limbs[Len(limbs)] * k + carry) \div 1024,
                  <<(limbs[Len(limbs)] * k + carry) % 1024>> \o done)

\* The digits of a product: the first of the limbs may exceed 1023.
ProductBits(limbs) == BitsOf(limbs[1]) \o FromLimbs(Tail(limbs))

\* x * k for a natural number k < 2^20.
MulBy(x, k) ==
    RoundF64(x.neg, x.exp, ProductBits(MulLimbs(ToLimbs(x.bits), k, 0, <<>>)), FALSE)

\* The sum of two numbers of equally many digits to the base 1024.
RECURSIVE AddLimbs(_, _, _, _)
AddLimbs(a, b, carry, done) ==
    IF a = <<>> THEN <<carry>> \o done
    ELSE AddLimbs(Take(a, Len(a) - 1), Take(b, Len(b) - 1),
                  (a[Len(a)] + b[Len(b)] + carry) \div 1024,
                  <<(a[Len(a)] + b[Len(b)] + carry) % 1024>> \o done)

\* The digits of a + b.
AddBits(a, b) ==
    Let(IF Len(a) > Len(b) THEN Len(a) ELSE Len(b), LAMBDA n :
        FromLimbs(AddLimbs(ToLimbs(Zeros(n - Len(a)) \o a),
                           ToLimbs(Zeros(n - Len(b)) \o b), 0, <<>>)))

\* x + y for two numbers that are not negative.
Add(x, y) ==
    IF IsZero(x) THEN y
    ELSE IF IsZero(y) THEN x
    ELSE Let(IF x.exp < y.exp THEN x.exp ELSE y.exp, LAMBDA e :
             RoundF64(FALSE, e, AddBits(x.bits \o Zeros(x.exp - e),
                                        y.bits \o Zeros(y.exp - e)), FALSE))

\* The integer part of |x|, for |x| < 2^30.
Trunc(x) ==
    IF IsZero(x) \/ 0 - x.exp >= 53 THEN 0
    ELSE BitsValue(Take(x.bits, 53 + x.exp))

\* |x| is a whole number.
IsWhole(x) ==
    \/ IsZero(x)
    \/ 0 - x.exp < 53 /\ \A i \in (54 + x.exp)..53 : x.bits[i] = 0

\* |x|.round(): half-way cases away from zero.
RoundAbs(x) ==
    IF IsZero(x) \/ 0 - x.exp > 53 THEN 0
    ELSE Trunc(x) + x.bits[54 + x.exp]

\* PartialEq of f64: the two zeros are equal.
F64Eq(x, y) == x = y \/ (IsZero(x) /\ IsZero(y))

\* x >= 0.0
NotNegative(x) == ~x.neg \/ IsZero(x)

\* <f64 as FromStr>::from_str on a text of digits and points of at most
\* nine digits, at most six of them after the point: the number nearest to
\* the decimal.
F64Parse(cs) ==
    Let(Drop(cs, SpanLen(cs, Digits)), LAMBDA rest :
    Let(IF rest = <<>> THEN <<>> ELSE Tail(rest), LAMBDA frac :
    Let(Take(cs, SpanLen(cs, Digits)) \o frac, LAMBDA all :
        IF rest # <<>> /\ Head(rest) # "." THEN PErr("invalid float literal")
        ELSE IF SpanLen(frac, Digits) # Len(frac) THEN PErr("invalid float literal")
        ELSE IF all = <<>> THEN PErr("invalid float literal")
        ELSE POk(DivBy(FromInt(DigitsValue(all, 0, I32Max)), 10^Len(frac))))))

\* The f64 nearest to tenths / 36000 degrees, with a sign.
Degrees(neg, tenths) ==
    IF neg THEN Negate(DivBy(FromInt(tenths), 36000)) ELSE DivBy(FromInt(tenths), 36000)

-----------------------------------------------------------------------------
(* Coord *)

Coord(lat, lng) == [lat |-> lat, lng |-> lng]

\* The result of parse_coord_component and parse_direction: a value and the
\* rest of the text.
COk(v, rest) == [ok |-> TRUE, val |-> v, rest |-> rest]

CErr == [ok |-> FALSE, val |-> 0, rest |-> <<>>]

\* Faulty variant of MaxDegreeDigits: one digit more is allowed.
MaxDegreeDigitsLoose(is_lat) == IF is_lat THEN 3 ELSE 4

\* `let max_digits = if is_lat { 2 } else { 3 }`
MaxDegreeDigits(is_lat) == IF is_lat THEN 2 ELSE 3

\* "Validate degree ranges"
DegreesInRange(degrees, is_lat) ==
    ~((is_lat /\ degrees > 90) \/ (~is_lat /\ degrees > 180))

\* "DDM format: parse fractional minutes", from the point on.
ParseDecimalMinutes(degrees, minutes, rest) ==
    Let(SpanLen(rest, Digits \cup {"."}), LAMBDA pos_ :
    Let(F64Parse(Take(rest, pos_)), LAMBDA frac_minutes :
        IF ~frac_minutes.ok THEN CErr
        ELSE COk(Add(FromInt(degrees),
                     DivBy(Add(FromInt(minutes), Unwrap(frac_minutes.val)), 60)),
                 Drop(rest, pos_))))

\* "DMS format: DD:MM:SS or DD:MM:SS.sss", after the second colon.
ParseSeconds(degrees, minutes, rest) ==
    Let(SpanLen(rest, Digits \cup {"."}), LAMBDA pos_ :
    Let(F64Parse(Take(rest, pos_)), LAMBDA seconds :
        IF SpanLen(rest, Digits) > 2 THEN CErr
        ELSE IF ~seconds.ok THEN CErr
        ELSE COk(Add(Add(FromInt(degrees), DivBy(FromInt(minutes), 60)),
                     DivBy(Unwrap(seconds.val), 3600)),
                 Drop(rest, pos_))))

\* "Parse minutes (1-2 digits)", after the first colon, and what follows.
ParseMinutes(degrees, rest) ==
    Let(SpanLen(rest, Digits), LAMBDA pos_ :
    Let(ParseUnsigned(Take(rest, pos_), U8Max), LAMBDA minutes :
    Let(Drop(rest, pos_), LAMBDA rest3 :
        IF pos_ = Len(rest) THEN CErr
        ELSE IF pos_ > 2 THEN CErr
        ELSE IF minutes < 0 THEN CErr
        ELSE IF Head(rest3) = "." THEN ParseDecimalMinutes(degrees, minutes, rest3)
        ELSE IF Head(rest3) # ":" THEN CErr
        ELSE ParseSeconds(degrees, minutes, Tail(rest3)))))

\* parse_coord_component
ParseCoordComponent(s, is_lat) ==
    Let(SpanLen(s, Digits), LAMBDA pos_ :
    Let(ParseUnsigned(Take(s, pos_), U8Max), LAMBDA degrees :
        IF pos_ = Len(s) THEN CErr
        ELSE IF pos_ > MaxDegreeDigits(is_lat) THEN CErr
        ELSE IF degrees < 0 THEN CErr
        ELSE IF ~DegreesInRange(degrees, is_lat) THEN CErr
        ELSE IF s[pos_ + 1] # ":" THEN CErr
        ELSE ParseMinutes(degrees, Drop(s, pos_ + 1))))

\* parse_direction
ParseDirection(s, is_lat) ==
    LET t  == TrimStart(s)
        ch == Head(t)
    IN  IF t = <<>> THEN CErr
        ELSE IF is_lat
        THEN IF ch \in {"N", "n"} THEN COk(FALSE, Tail(t))
             ELSE IF ch \in {"S", "s"} THEN COk(TRUE, Tail(t))
             ELSE CErr
        ELSE IF ch \in {"E", "e"} THEN COk(FALSE, Tail(t))
             ELSE IF ch \in {"W", "w"} THEN COk(TRUE, Tail(t))
             ELSE CErr

\* `.trim_start()`, `.strip_prefix(',')` if there is one, `.trim_start()`:
\* what follows the latitude.
SkipComma(rest) ==
    TrimStart(IF TrimStart(rest) # <<>> /\ Head(TrimStart(rest)) = ","
              THEN Tail(TrimStart(rest))
              ELSE TrimStart(rest))

InvalidCoord(data) == PErr("Invalid coord: \"" \o Str(data) \o "\"")

\* Coord::parse
CoordParse(data) ==
    Let(ParseCoordComponent(Trim(data), TRUE), LAMBDA lat :
    Let(ParseDirection(lat.rest, TRUE), LAMBDA lat_dir :
    Let(ParseCoordComponent(SkipComma(lat_dir.rest), FALSE), LAMBDA lng :
    Let(ParseDirection(lng.rest, FALSE), LAMBDA lng_dir :
        IF ~lat.ok THEN InvalidCoord(data)
        ELSE IF ~lat_dir.ok THEN InvalidCoord(data)
        ELSE IF ~lng.ok THEN InvalidCoord(data)
        ELSE IF ~lng_dir.ok THEN InvalidCoord(data)
        ELSE POk(Coord(IF lat_dir.val THEN Negate(lat.val) ELSE lat.val,
                       IF lng_dir.val THEN Negate(lng.val) ELSE lng.val))))))

\* `as u16` of a number that is not negative.
AsU16(n) == IF n > U16Max THEN U16Max ELSE n

\* One half of Coord::write: degrees, minutes and seconds of a component.
\* `total` is a whole number, and the quotients of whole numbers by 3600
\* and 60 are truncated, so the steps after the rounding are those of the
\* integers.
WriteComponent(x, width) ==
    Let(RoundAbs(MulBy(x, 3600)), LAMBDA total :
    Let(AsU16(total \div 3600), LAMBDA deg :
    Let(total - deg * 3600, LAMBDA remaining :
    Let(AsU16(remaining \div 60), LAMBDA min :
    Let(AsU16(remaining - min * 60), LAMBDA sec :
        ZeroPad(Decimal(deg), width) \o <<":">> \o ZeroPad(Decimal(min), 2)
        \o <<":">> \o ZeroPad(Decimal(sec), 2))))))

\* Coord::write
CoordWrite(c) ==
    WriteComponent(c.lat, 2) \o <<" ", IF NotNegative(c.lat) THEN "N" ELSE "S", " ">>
    \o WriteComponent(c.lng, 3) \o <<" ", IF NotNegative(c.lng) THEN "E" ELSE "W">>

-----------------------------------------------------------------------------
(* Class, Direction, ActivationTimes *)

ClassCodes ==
    [A |-> "A", B |-> "B", C |-> "C", D |-> "D", E |-> "E", F |-> "F", G |-> "G",
     CTR |-> "Ctr", R |-> "Restricted", Q |-> "Danger", P |-> "Prohibited",
     GP |-> "GliderProhibited", W |-> "WaveWindow", RMZ |-> "RadioMandatoryZone",
     TMZ |-> "TransponderMandatoryZone", UNC |-> "Unclassified"]

ClassParse(data) ==
    IF Str(data) \in DOMAIN ClassCodes
    THEN POk(ClassCodes[Str(data)])
    ELSE PErr("Invalid class: " \o Str(data))

\* Class::to_str
ClassToStr ==
    [A |-> <<"A">>, B |-> <<"B">>, C |-> <<"C">>, D |-> <<"D">>, E |-> <<"E">>,
     F |-> <<"F">>, G |-> <<"G">>, Ctr |-> <<"C", "T", "R">>,
     Restricted |-> <<"R">>, Danger |-> <<"Q">>, Prohibited |-> <<"P">>,
     GliderProhibited |-> <<"G", "P">>, WaveWindow |-> <<"W">>,
     RadioMandatoryZone |-> <<"R", "M", "Z">>,
     TransponderMandatoryZone |-> <<"T", "M", "Z">>,
     Unclassified |-> <<"U", "N", "C">>]

DirectionParse(data) ==
    IF data = <<"+">> THEN POk("Cw")
    ELSE IF data = <<"-">> THEN POk("Ccw")
    ELSE PErr("Invalid direction: " \o Str(data))

\* Direction::default()
DefaultDirection == "Cw"

\* The date-times of the model: the texts iso8601::datetime reads and the
\* moment each of them denotes; every other text is rejected.
DateTimeShort ==
    <<"2", "0", "2", "3", "-", "1", "2", "-", "1", "6", "T", "1", "2", ":", "0", "0", "Z">>

DateTimeFull ==
    <<"2", "0", "2", "3", "-", "1", "2", "-", "1", "6", "T", "1", "2", ":", "0", "0",
      ":", "0", "0", ".", "0", "+", "0", "0", ":", "0", "0">>

DateTimes == (DateTimeShort :> "2023-12-16 12:00 UTC") @@ (DateTimeFull :> "2023-12-16 12:00 UTC")

\* Display of iso8601::DateTime.
DateTimeWrite == ("2023-12-16 12:00 UTC" :> DateTimeFull)

\* One side of an activation range.
ActivationBoundParse(s) ==
    IF EqIgnoreCase(s, <<"n", "o", "n", "e">>) THEN POk(None)
    ELSE IF s \in DOMAIN DateTimes THEN POk(Some(DateTimes[s]))
    ELSE PErr("Parsing Error: " \o Str(s))

\* <ActivationTimes as FromStr>::from_str
ActivationTimesParse(data) ==
    LET n     == Find(data, "/")
        start == ActivationBoundParse(Take(data, n))
        end   == ActivationBoundParse(Drop(data, n + 1))
    IN  IF EqIgnoreCase(data, <<"n", "o", "n", "e">>)
        THEN POk([start |-> None, end |-> None])
        ELSE IF n = Len(data)
        THEN PErr("Invalid activation times record: " \o Str(data))
        ELSE IF ~start.ok THEN PErr(start.err)
        ELSE IF ~end.ok THEN PErr(end.err)
        ELSE POk([start |-> Unwrap(start.val), end |-> Unwrap(end.val)])

\* One side of a written activation range.
ActivationBoundWrite(bound) ==
    IF bound = None THEN <<"N", "O", "N", "E">> ELSE DateTimeWrite[Unwrap(bound)]

\* ActivationTimes::write: START/END.
ActivationTimesWrite(times) ==
    ActivationBoundWrite(times.start) \o <<"/">> \o ActivationBoundWrite(times.end)

\* validate_angle
ValidateAngle(val) ==
    IF F32Greater(val, 360) THEN PErr("Angle " \o Str(F32Write(val)) \o " too large")
    ELSE IF F32Negative(val) THEN PErr("Angle " \o Str(F32Write(val)) \o " is negative")
    ELSE POk(val)

-----------------------------------------------------------------------------
(* Record::parse *)

Rec(kind, val) == [kind |-> kind, val |-> val]

\* A record without payload.
Bare(kind) == Rec(kind, <<>>)

\* The result of a sub-parser turned into the result of Record::parse (`?`).
Lift(kind, p) == IF p.ok THEN POk(Rec(kind, Unwrap(p.val))) ELSE PErr(p.err)

\* `data.split(',').map(str::trim)`
Fields(data) == LET parts == Split(data, ",") IN [i \in DOMAIN parts |-> Trim(parts[i])]

InvalidArcSegment(data) == PErr("Invalid arc segment data: " \o Str(data))

ParseArcSegment(data) ==
    Let([i \in DOMAIN Fields(data) |-> F32Parse(Fields(data)[i])], LAMBDA parts :
        IF \E i \in DOMAIN parts : ~parts[i].ok THEN InvalidArcSegment(data)
        ELSE IF Len(parts) # 3 THEN InvalidArcSegment(data)
        ELSE Let(ValidateAngle(Unwrap(parts[2].val)), LAMBDA angle_start :
             Let(ValidateAngle(Unwrap(parts[3].val)), LAMBDA angle_end :
                 IF ~angle_start.ok THEN PErr(angle_start.err)
                 ELSE IF ~angle_end.ok THEN PErr(angle_end.err)
                 ELSE POk(Rec("ArcSegmentData",
                              [radius      |-> Unwrap(parts[1].val),
                               angle_start |-> Unwrap(angle_start.val),
                               angle_end   |-> Unwrap(angle_end.val)])))))

InvalidArc(data) == PErr("Invalid arc data: " \o Str(data))

ParseArc(data) ==
    Let([i \in DOMAIN Fields(data) |-> CoordParse(Fields(data)[i])], LAMBDA parts :
        IF \E i \in DOMAIN parts : ~parts[i].ok THEN InvalidArc(data)
        ELSE IF Len(parts) # 2 THEN InvalidArc(data)
        ELSE POk(Rec("ArcData", [start |-> Unwrap(parts[1].val),
                                 end   |-> Unwrap(parts[2].val)])))

\* Faulty variant of UnknownExtension: the record holds the data only.
UnknownExtensionData(ln) == POk(Rec("UnknownExtension", ln.data))

\* The ('A', _) arm of Record::parse: the trimmed line is kept.
UnknownExtension(ln) == POk(Rec("UnknownExtension", ln.trimmed))

\* Record::parse, on the record type and data taken from the line
RecordParse(ln) ==
    LET t1   == ln.t1
        t2   == ln.t2
        data == ln.data
    IN  IF t1 = "" THEN POk(Bare("Empty"))
        ELSE IF t1 = "*" THEN POk(Bare("Comment"))
        ELSE IF t1 = "A" /\ t2 = "C" THEN Lift("AirspaceClass", ClassParse(data))
        ELSE IF t1 = "A" /\ t2 = "N" THEN POk(Rec("AirspaceName", data))
        ELSE IF t1 = "A" /\ t2 = "L" THEN Lift("LowerBound", AltitudeParse(data))
        ELSE IF t1 = "A" /\ t2 = "H" THEN Lift("UpperBound", AltitudeParse(data))
        ELSE IF t1 = "A" /\ t2 = "T" THEN POk(Bare("LabelPlacement"))
        ELSE IF t1 = "A" /\ t2 = "Y" THEN POk(Rec("AirspaceType", data))
        ELSE IF t1 = "A" /\ t2 = "F" THEN POk(Rec("Frequency", data))
        ELSE IF t1 = "A" /\ t2 = "G" THEN POk(Rec("CallSign", data))
        ELSE IF t1 = "A" /\ t2 = "X"
             THEN Let(ParseUnsigned(data, U16Max), LAMBDA code :
                      IF code >= 0 THEN POk(Rec("TransponderCode", code))
                      ELSE PErr("Invalid transponder code: " \o Str(data)))
        ELSE IF t1 = "A" /\ t2 = "A"
             THEN Lift("ActivationTimes", ActivationTimesParse(data))
        ELSE IF t1 = "A" THEN UnknownExtension(ln)
        ELSE IF t1 = "S" /\ t2 = "P" THEN POk(Bare("Pen"))
        ELSE IF t1 = "S" /\ t2 = "B" THEN POk(Bare("Brush"))
        ELSE IF t1 = "V" /\ t2 = "X" THEN Lift("VarX", CoordParse(Drop(data, 2)))
        ELSE IF t1 = "V" /\ t2 = "D" THEN Lift("VarD", DirectionParse(Drop(data, 2)))
        ELSE IF t1 = "D" /\ t2 = "P" THEN Lift("Point", CoordParse(data))
        ELSE IF t1 = "D" /\ t2 = "C"
             THEN Let(F32Parse(data), LAMBDA radius :
                      IF radius.ok THEN POk(Rec("CircleRadius", Unwrap(radius.val)))
                      ELSE PErr("Invalid radius: " \o Str(data)))
        ELSE IF t1 = "D" /\ t2 = "A" THEN ParseArcSegment(data)
        ELSE IF t1 = "D" /\ t2 = "B" THEN ParseArc(data)
        ELSE PErr("Parse error (unexpected \"" \o t1 \o t2 \o "\")")

\* Geometry::Polygon and Geometry::Circle
Polygon(segments) == [kind |-> "Polygon", segments |-> segments]

Circle(centerpoint, radius) ==
    [kind |-> "Circle", centerpoint |-> centerpoint, radius |-> radius]

-----------------------------------------------------------------------------
(* Record::write, Airspace::write and write *)

\* The two-byte line terminator.
CrLf == <<"\r", "\n">>

\* Record::write
RecordWrite(rec) ==
    CASE rec.kind = "AirspaceClass"   -> <<"A", "C", " ">> \o ClassToStr[rec.val] \o CrLf
      [] rec.kind = "AirspaceType"    -> <<"A", "Y", " ">> \o rec.val \o CrLf
      [] rec.kind = "AirspaceName"    -> <<"A", "N", " ">> \o rec.val \o CrLf
      [] rec.kind = "LowerBound"      -> <<"A", "L", " ">> \o AltitudeWrite(rec.val) \o CrLf
      [] rec.kind = "UpperBound"      -> <<"A", "H", " ">> \o AltitudeWrite(rec.val) \o CrLf
      [] rec.kind = "Frequency"       -> <<"A", "F", " ">> \o rec.val \o CrLf
      [] rec.kind = "CallSign"        -> <<"A", "G", " ">> \o rec.val \o CrLf
      [] rec.kind = "TransponderCode" -> <<"A", "X", " ">> \o Decimal(rec.val) \o CrLf
      [] rec.kind = "ActivationTimes" -> <<"A", "A", " ">> \o ActivationTimesWrite(rec.val) \o CrLf
      [] rec.kind = "VarX"            -> <<"V", " ", "X", "=">> \o CoordWrite(rec.val) \o CrLf
      [] rec.kind = "VarD"            ->
             <<"V", " ", "D", "=">> \o (IF rec.val = "Cw" THEN <<"+">> ELSE <<"-">>) \o CrLf
      [] rec.kind = "Point"           -> <<"D", "P", " ">> \o CoordWrite(rec.val) \o CrLf
      [] rec.kind = "CircleRadius"    -> <<"D", "C", " ">> \o F32Write(rec.val) \o CrLf
      [] rec.kind = "ArcSegmentData"  ->
             <<"D", "A", " ">> \o F32Write(rec.val.radius) \o <<",", " ">> \o F32Write(rec.val.angle_start)
             \o <<",", " ">> \o F32Write(rec.val.angle_end) \o CrLf
      [] rec.kind = "ArcData"         ->
             <<"D", "B", " ">> \o CoordWrite(rec.val.start) \o <<",", " ">> \o CoordWrite(rec.val.end) \o CrLf
      [] rec.kind = "UnknownExtension" -> rec.val \o CrLf
      [] rec.kind = "Empty"           -> CrLf
      [] rec.kind \in {"Comment", "LabelPlacement", "Pen", "Brush"} -> <<>>

\* `if let Some(..) = self.field { Record::Kind(..).write(..) }`
Optional(kind, field) == IF IsSome(field) THEN <<Rec(kind, Unwrap(field))>> ELSE <<>>

\* Faulty variant of SegmentRecords: the direction of an arc is not written.
SegmentRecordsNoDirection(segment) ==
    CASE segment.kind = "Point" -> <<Rec("Point", segment.coord)>>
      [] segment.kind = "ArcSegment" ->
             <<Rec("VarX", segment.centerpoint),
               Rec("ArcSegmentData", [radius      |-> segment.radius,
                                      angle_start |-> segment.angle_start,
                                      angle_end   |-> segment.angle_end])>>
      [] segment.kind = "Arc" ->
             <<Rec("VarX", segment.centerpoint),
               Rec("ArcData", [start |-> segment.start, end |-> segment.end])>>

\* `match segment` of Airspace::write: the records of one polygon segment.
SegmentRecords(segment) ==
    CASE segment.kind = "Point" -> <<Rec("Point", segment.coord)>>
      [] segment.kind = "ArcSegment" ->
             <<Rec("VarX", segment.centerpoint),
               Rec("VarD", segment.direction),
               Rec("ArcSegmentData", [radius      |-> segment.radius,
                                      angle_start |-> segment.angle_start,
                                      angle_end   |-> segment.angle_end])>>
      [] segment.kind = "Arc" ->
             <<Rec("VarX", segment.centerpoint),
               Rec("VarD", segment.direction),
               Rec("ArcData", [start |-> segment.start, end |-> segment.end])>>

\* `match &self.geom` of Airspace::write.
GeometryRecords(geom) ==
    IF geom.kind = "Circle"
    THEN <<Rec("VarX", geom.centerpoint), Rec("CircleRadius", geom.radius)>>
    ELSE Flatten([i \in DOMAIN geom.segments |-> SegmentRecords(geom.segments[i])])

\* The records Airspace::write writes, in its order.
AirspaceRecords(a) ==
    <<Rec("AirspaceClass", a.class)>>
    \o Optional("AirspaceType", a.type_)
    \o <<Rec("AirspaceName", a.name),
         Rec("LowerBound", a.lower_bound),
         Rec("UpperBound", a.upper_bound)>>
    \o Optional("Frequency", a.frequency)
    \o Optional("CallSign", a.call_sign)
    \o Optional("TransponderCode", a.transponder_code)
    \o Optional("ActivationTimes", a.activation_times)
    \o GeometryRecords(a.geom)

\* Airspace::write
AirspaceWrite(a) ==
    Flatten([i \in DOMAIN AirspaceRecords(a) |-> RecordWrite(AirspaceRecords(a)[i])])

\* Faulty variant of Separator: the blank line is written before the first
\* airspace too.
SeparatorAlways(i) == CrLf

\* `if i != 0 { write!(writer, "\r\n")?; }`
Separator(i) == IF i # 0 THEN CrLf ELSE <<>>

\* BufRead::read_until(b'\n', ..) called until it reads nothing: the lines
\* of a text, each with its terminator.
ReadLines(w) ==
    LET nl == SelectSeq([i \in 1..Len(w) |-> i], LAMBDA i : w[i] = "\n")
    IN  [k \in 1..Len(nl) |-> SubSeq(w, IF k = 1 THEN 1 ELSE nl[k - 1] + 1, nl[k])]
        \o (IF w # <<>> /\ w[Len(w)] # "\n"
            THEN <<SubSeq(w, IF nl = <<>> THEN 1 ELSE nl[Len(nl)] + 1, Len(w))>>
            ELSE <<>>)

-----------------------------------------------------------------------------
(* The input files of the model *)

\* Longest file made of arbitrary lines.
MaxLines == 2

\* Most airspaces in a file made of well-formed airspaces.
MaxAirspaces == 2

\* Pulls the caller still makes after the iterator has returned None.
MaxPullsAfterEnd == 1

\* The texts of the model's records.
gnd == <<"G", "N", "D">>

unlim == <<"U", "N", "L", "I", "M">>

n1 == <<"n", "1">>

n2 == <<"n", "2">>

c1 == <<"4", "6", ":", "5", "1", ":", "4", "4", " ", "N", " ",
        "0", "0", "9", ":", "1", "9", ":", "4", "2", " ", "E">>

c2 == <<"0", "2", ":", "2", "6", ":", "1", "5", " ", "S", " ",
        "1", "7", "9", ":", "5", "9", ":", "5", "9", " ", "W">>

bad == <<"b", "a", "d">>

AC(code)  == Line("A", "C", code)
AN(name)  == Line("A", "N", name)
AL(alt)   == Line("A", "L", alt)
AH(alt)   == Line("A", "H", alt)
VX(coord) == Line("V", "X", <<"X", "=">> \o coord)
VD(dir)   == Line("V", "D", <<"D", "=">> \o dir)
DP(coord) == Line("D", "P", coord)
DC(r)     == Line("D", "C", r)
DA        == Line("D", "A", <<"1", "0", ",", " ", "2", "7", "0", ",", " ", "2", "9", "0">>)
DB        == Line("D", "B", c1 \o <<",", " ">> \o c2)

\* Blank, comment, label placement, pen and brush lines.
IgnorableLines ==
    {EmptyLine, Line("*", " ", <<>>), Line("A", "T", c1),
     Line("S", "P", <<"0">>), Line("S", "B", <<"0">>)}

\* Every kind of line: each record of the grammar, an unknown extension, a
\* class that is no class, and a tag that is no tag.
Lines ==
    IgnorableLines \cup
    {Line("A", "Z", <<"x">>), AC(<<"A">>), AC(<<"D">>), AC(<<"X">>), AN(n1), AN(n2),
     AL(gnd), AH(unlim), Line("A", "Y", <<"t">>), Line("A", "F", <<"f">>),
     Line("A", "G", <<"g">>), Line("A", "X", <<"7", "0", "0", "0">>),
     Line("A", "A", <<"N", "O", "N", "E">>), VX(c1), VX(c2), VD(<<"+">>), VD(<<"-">>),
     DP(c1), DC(<<"5">>), DA, DB, Line("X", "X", <<>>)}

SeqsUpTo(S, n) == UNION {[1..k -> S] : k \in 0..n}

\* The lines of `base` that are in `keep`, in the order of `base`.
Pick(base, keep) == SelectSeq(base, LAMBDA x : x \in keep)

Range(f) == {f[i] : i \in DOMAIN f}

ShortFiles == SeqsUpTo(Lines, MaxLines)

\* Well-formed airspaces: a class declaration followed by name, bounds and a
\* geometry, in more than one order and with optional records.
Headers ==
    {<<AC(<<"A">>), AN(n1), AL(gnd), AH(unlim)>>,
     <<AC(<<"D">>), AN(n2), AL(gnd), AH(unlim)>>,
     <<AC(<<"D">>), Line("A", "Y", <<"t">>), AH(unlim), AL(gnd), AN(n1),
       Line("A", "X", <<"7", "0", "0", "0">>)>>}

Shapes ==
    {<<DP(c1)>>, <<DP(c1), DP(c2)>>, <<VX(c1), DC(<<"5">>)>>,
     <<VX(c1), VD(<<"-">>), DA>>, <<DP(c2), VX(c2), DB>>}

Bodies == {h \o g : h \in Headers, g \in Shapes}

WellFormedFiles == {Flatten(bs) : bs \in SeqsUpTo(Bodies, MaxAirspaces)}

\* Sections of a file that need not be well formed: any part of a minimal
\* airspace with or without its class declaration, geometry records with
\* and without the carry-over records they need, duplicates, malformed lines.
MinimalBody == <<AC(<<"A">>), AN(n1), AL(gnd), AH(unlim), DP(c1)>>

FullHeader == <<AC(<<"D">>), AN(n2), AL(gnd), AH(unlim)>>

Sections ==
    {Pick(MinimalBody, keep) : keep \in SUBSET Range(MinimalBody)}
    \cup {FullHeader \o g : g \in
            {<<VX(c1), VD(<<"-">>)>>, <<DC(<<"5">>)>>, <<DA>>, <<DB>>,
             <<VX(c2), DA>>, <<VX(c2), DB>>, <<VX(c2), DC(<<"5">>)>>,
             <<DP(c1), VX(c1), VD(<<"-">>)>>,
             <<VX(c1), DC(<<"5">>), DP(c1)>>, <<VX(c1), DC(<<"5">>), DA>>,
             <<VX(c1), DC(<<"5">>), DB>>, <<VX(c1), DC(<<"5">>), DC(<<"5">>)>>,
             <<DP(c1), DC(<<"5">>)>>, <<DP(c1), VX(c1), DC(<<"5">>)>>,
             <<VX(c1), VD(<<"-">>), DA, VD(<<"+">>), DB, VX(c2), DA>>}}
    \cup {<<AC(<<"A">>), AN(n1), AN(n2)>>, <<Line("X", "X", <<>>)>>,
          <<AC(<<"X">>)>>, <<DP(bad)>>}

PairFiles == {a \o b : a \in Sections, b \in Sections}

\* An ignorable line between two parts of a file.
Fronts ==
    {<<>>, <<AC(<<"A">>)>>, <<AC(<<"A">>), AN(n1), AL(gnd), AH(unlim)>>,
     <<AC(<<"A">>), AN(n1), AL(gnd), AH(unlim), VX(c1)>>,
     <<AC(<<"A">>), AN(n1), AL(gnd), AH(unlim), VX(c1), VD(<<"-">>)>>,
     <<AC(<<"A">>), AN(n1), AL(gnd), AH(unlim), DP(c1)>>}

Backs ==
    {<<>>, <<DP(c2)>>, <<DC(<<"5">>)>>, <<DA>>, <<AH(unlim)>>,
     <<AC(<<"D">>), AN(n2), AL(gnd), AH(unlim), DP(c1)>>}

InterleavedFiles ==
    {a \o <<g>> \o b : a \in Fronts, g \in IgnorableLines, b \in Backs}

\* Altitude notation that is neither ground, unlimited, a flight level nor
\* feet or metres above a known reference: an unknown unit, an unknown
\* reference, text without a number, FL without a number that fits a u16,
\* a magnitude that does not fit an i32.
Unclassified ==
    {<<"1", "0", "0", "0", "x", "y", "z">>, <<"1", "0", "0", " ", "f", "e", "e", "t">>,
     <<"1", "0", "0", " ", "f", "t", " ", "Q", "N", "H">>,
     <<"1", "0", "0", "m", " ", "S", "T", "D">>,
     bad, <<"-", "2", "0", "0", "f", "t", " ", "A", "M", "S", "L">>,
     <<"F", "L">>, <<"F", "L", "x">>, <<"F", "L", "6", "5", "5", "3", "6">>,
     <<"2", "1", "4", "7", "4", "8", "3", "6", "4", "8">>,
     <<"2", "1", "4", "7", "4", "8", "3", "6", "4", "8", " ", "f", "t">>}

\* An airspace with these bounds.
BoundsFile(lower, upper) == <<AC(<<"A">>), AN(n1), AL(lower), AH(upper), DP(c1)>>

BoundsFiles ==
    {BoundsFile(lower, upper) :
        lower \in Unclassified \cup {gnd}, upper \in Unclassified \cup {unlim}}

Files ==
    ShortFiles \cup WellFormedFiles \cup PairFiles \cup InterleavedFiles \cup BoundsFiles

(* The airspaces of the model *)

\* Most airspaces in a call of write.
MaxWritten == 2

\* 47:00:00 N 008:00:00 E
Zurich == Coord(Degrees(FALSE, 1692000), Degrees(FALSE, 288000))

\* 46:30:00 N 009:15:00 E
Alps == Coord(Degrees(FALSE, 1674000), Degrees(FALSE, 333000))

\* 12:00:00 S 179:30:00 W
Pacific == Coord(Degrees(TRUE, 432000), Degrees(TRUE, 6462000))

\* 02:26:15 N 000:00:00 E
Equator == Coord(Degrees(FALSE, 87750), Degrees(FALSE, 0))

Airspace(class, name, lower_bound, upper_bound, geom) ==
    [name |-> name, class |-> class, type_ |-> None, lower_bound |-> lower_bound,
     upper_bound |-> upper_bound, geom |-> geom, frequency |-> None,
     call_sign |-> None, transponder_code |-> None, activation_times |-> None]

MinimalCircle == Airspace("A", n1, Gnd, Unlimited, Circle(Zurich, Whole(5)))

FullCircle ==
    [Airspace("Ctr", n2, FeetAgl(0), FlightLevel(100),
              Circle(Pacific, F32(FALSE, 1, <<"5">>)))
        EXCEPT !.type_ = Some(<<"T", "M", "A">>),
               !.frequency = Some(<<"1", "2", "3", ".", "4", "5", "0">>),
               !.call_sign = Some(<<"T", "o", "w", "e", "r", " ", "O", "n", "e">>),
               !.transponder_code = Some(7000),
               !.activation_times =
                   Some([start |-> Some("2023-12-16 12:00 UTC"), end |-> None])]

Triangle ==
    Airspace("Restricted", n1, FeetAmsl(4500), FlightLevel(195),
             Polygon(<<[kind |-> "Point", coord |-> Zurich],
                       [kind |-> "Point", coord |-> Alps],
                       [kind |-> "Point", coord |-> Pacific]>>))

Arcs ==
    [Airspace("TransponderMandatoryZone", n2, Gnd, FeetAmsl(4500),
              Polygon(<<[kind |-> "ArcSegment", centerpoint |-> Zurich,
                         radius |-> Whole(10), angle_start |-> Whole(270),
                         angle_end |-> Whole(290), direction |-> "Ccw"],
                        [kind |-> "Point", coord |-> Alps],
                        [kind |-> "Arc", centerpoint |-> Alps, start |-> Zurich,
                         end |-> Pacific, direction |-> "Cw"],
                        [kind |-> "Arc", centerpoint |-> Pacific, start |-> Alps,
                         end |-> Zurich, direction |-> "Ccw"]>>))
        EXCEPT !.transponder_code = Some(0)]

BelowSeaLevel ==
    Airspace("Danger", n1, FeetAmsl(-200), FeetAgl(1),
             Polygon(<<[kind |-> "Point", coord |-> Zurich]>>))

NearEquator == Airspace("G", n2, Gnd, Unlimited, Circle(Equator, Whole(1)))

Airspaces == {MinimalCircle, FullCircle, Triangle, Arcs, BelowSeaLevel, NearEquator}

AirspaceLists == SeqsUpTo(Airspaces, MaxWritten)

\* Every line of the model's files.
FileLines == UNION {Range(f) : f \in Files}

\* The lines of the written airspaces, as OpenAirIterator reads them, and
\* the blank line between them.
WrittenLines ==
    {EmptyLine} \cup UNION {Range([k \in DOMAIN ReadLines(AirspaceWrite(a)) |->
                                      Lex(ReadLines(AirspaceWrite(a))[k])]) : a \in Airspaces}

\* Record::parse of every line of the model, computed once.
ParsedLines == [ln \in FileLines \cup WrittenLines |-> RecordParse(ln)]

\* Record::parse(&self.line)
ParseLine(ln) == ParsedLines[ln]

-----------------------------------------------------------------------------
(* next_airspace: the accumulator and the records it consumes *)

\* The local variables of next_airspace as they are declared.
EmptyAcc ==
    [name |-> None, class |-> None, lower_bound |-> None, upper_bound |-> None,
     geom |-> None, type_ |-> None, frequency |-> None, call_sign |-> None,
     transponder_code |-> None, activation_times |-> None,
     var_x |-> None, var_d |-> None]

\* The outcome of consuming one record: the loop goes on with the new
\* accumulator, or next_airspace returns Err(err).
Go(a) == [ok |-> TRUE, acc |-> a, err |-> ""]

Fail(a, msg) == [ok |-> FALSE, acc |-> a, err |-> msg]

\* Faulty variant of SetOnce: a later record replaces the value.
SetOnceOverwrite(a, fld, label, v) == Go([a EXCEPT ![fld] = Some(v)])

\* A once-only field: `label` is the field's name in the message.
SetOnce(a, fld, label, v) ==
    IF IsSome(a[fld])
    THEN Fail(a, "Could not set " \o label \o " (already defined)")
    ELSE Go([a EXCEPT ![fld] = Some(v)])

\* Faulty variant of SetVarX: the first centerpoint of an airspace stays.
SetVarXKeepFirst(a, coord) ==
    IF IsSome(a.var_x) THEN Go(a) ELSE Go([a EXCEPT !.var_x = Some(coord)])

SetVarX(a, coord) == Go([a EXCEPT !.var_x = Some(coord)])

SetVarD(a, direction) == Go([a EXCEPT !.var_d = Some(direction)])

\* `match &mut geom` of the Point, ArcSegmentData and ArcData arms.
AddSegment(a, segment) ==
    IF a.geom = None
    THEN Go([a EXCEPT !.geom = Some(Polygon(<<segment>>))])
    ELSE IF Unwrap(a.geom).kind = "Polygon"
    THEN Go([a EXCEPT !.geom =
                Some(Polygon(Append(Unwrap(a.geom).segments, segment)))])
    ELSE Fail(a, "Cannot add a point to a circle")

AddPoint(a, coord) == AddSegment(a, [kind |-> "Point", coord |-> coord])

\* Faulty variant of SetCircle: the circle replaces whatever geometry there is.
SetCircleReplace(a, radius) ==
    IF IsSome(a.var_x)
    THEN Go([a EXCEPT !.geom = Some(Circle(Unwrap(a.var_x), radius))])
    ELSE Fail(a, "Centerpoint missing")

SetCircle(a, radius) ==
    IF a.geom = None /\ IsSome(a.var_x)
    THEN Go([a EXCEPT !.geom = Some(Circle(Unwrap(a.var_x), radius))])
    ELSE IF IsSome(a.geom) THEN Fail(a, "Geometry already set")
    ELSE Fail(a, "Centerpoint missing")

\* var_d.unwrap_or_default()
DirectionOf(a) == IF IsSome(a.var_d) THEN Unwrap(a.var_d) ELSE DefaultDirection

AddArcSegment(a, d) ==
    IF a.var_x = None THEN Fail(a, "Centerpoint missing")
    ELSE AddSegment(a, [kind        |-> "ArcSegment",
                        centerpoint |-> Unwrap(a.var_x),
                        radius      |-> d.radius,
                        angle_start |-> d.angle_start,
                        angle_end   |-> d.angle_end,
                        direction   |-> DirectionOf(a)])

\* Faulty variant of AddArc: an arc without centerpoint is skipped.
AddArcSkip(a, d) ==
    IF a.var_x = None THEN Go(a)
    ELSE AddSegment(a, [kind        |-> "Arc",
                        centerpoint |-> Unwrap(a.var_x),
                        start       |-> d.start,
                        end         |-> d.end,
                        direction   |-> DirectionOf(a)])

AddArc(a, d) ==
    IF a.var_x = None THEN Fail(a, "Centerpoint missing")
    ELSE AddSegment(a, [kind        |-> "Arc",
                        centerpoint |-> Unwrap(a.var_x),
                        start       |-> d.start,
                        end         |-> d.end,
                        direction   |-> DirectionOf(a)])

IgnoredKinds ==
    {"Empty", "Comment", "LabelPlacement", "Pen", "Brush", "UnknownExtension"}

\* Faulty variant of Ignore: an ignored line ends the scope of the carry-over
\* variables.
IgnoreResetsCarry(a) == Go([a EXCEPT !.var_x = None, !.var_d = None])

\* The arms of the ignored records: `=> {}`.
Ignore(a) == Go(a)

\* `match record` of next_airspace.
ProcessRecord(a, rec) ==
    CASE rec.kind \in IgnoredKinds       -> Ignore(a)
      [] rec.kind = "AirspaceClass"      -> SetOnce(a, "class", "class", rec.val)
      [] rec.kind = "AirspaceName"       -> SetOnce(a, "name", "name", rec.val)
      [] rec.kind = "LowerBound"         -> SetOnce(a, "lower_bound", "lower_bound", rec.val)
      [] rec.kind = "UpperBound"         -> SetOnce(a, "upper_bound", "upper_bound", rec.val)
      [] rec.kind = "AirspaceType"       -> SetOnce(a, "type_", "type", rec.val)
      [] rec.kind = "Frequency"          -> SetOnce(a, "frequency", "frequency", rec.val)
      [] rec.kind = "CallSign"           -> SetOnce(a, "call_sign", "call_sign", rec.val)
      [] rec.kind = "TransponderCode"    -> SetOnce(a, "transponder_code", "transponder_code", rec.val)
      [] rec.kind = "ActivationTimes"    -> SetOnce(a, "activation_times", "activation_times", rec.val)
      [] rec.kind = "VarX"               -> SetVarX(a, rec.val)
      [] rec.kind = "VarD"               -> SetVarD(a, rec.val)
      [] rec.kind = "Point"              -> AddPoint(a, rec.val)
      [] rec.kind = "CircleRadius"       -> SetCircle(a, rec.val)
      [] rec.kind = "ArcSegmentData"     -> AddArcSegment(a, rec.val)
      [] rec.kind = "ArcData"            -> AddArc(a, rec.val)

-----------------------------------------------------------------------------
(* next_airspace: what a pull returns *)

\* An item of the results: Some(Ok(airspace)), Some(Err(msg)) or None.
ItemOk(airspace) == [kind |-> "Ok", airspace |-> Some(airspace), msg |-> ""]

ItemErr(msg) == [kind |-> "Err", airspace |-> None, msg |-> msg]

ItemNone == [kind |-> "None", airspace |-> None, msg |-> ""]

\* Faulty variant of Finish: the upper bound is looked at before the lower bound.
FinishUpperFirst(a) ==
    IF a.name = None THEN ItemErr("Missing name")
    ELSE IF a.upper_bound = None
    THEN ItemErr("Missing upper bound for '" \o Str(Unwrap(a.name)) \o "'")
    ELSE IF a.lower_bound = None
    THEN ItemErr("Missing lower bound for '" \o Str(Unwrap(a.name)) \o "'")
    ELSE IF a.geom = None
    THEN ItemErr("Missing geom for '" \o Str(Unwrap(a.name)) \o "'")
    ELSE ItemOk([name             |-> Unwrap(a.name),
                 class            |-> Unwrap(a.class),
                 type_            |-> a.type_,
                 lower_bound      |-> Unwrap(a.lower_bound),
                 upper_bound      |-> Unwrap(a.upper_bound),
                 geom             |-> Unwrap(a.geom),
                 frequency        |-> a.frequency,
                 call_sign        |-> a.call_sign,
                 transponder_code |-> a.transponder_code,
                 activation_times |-> a.activation_times])

\* "Build and return airspace from accumulated data" (the class is known).
Finish(a) ==
    IF a.name = None THEN ItemErr("Missing name")
    ELSE IF a.lower_bound = None
    THEN ItemErr("Missing lower bound for '" \o Str(Unwrap(a.name)) \o "'")
    ELSE IF a.upper_bound = None
    THEN ItemErr("Missing upper bound for '" \o Str(Unwrap(a.name)) \o "'")
    ELSE IF a.geom = None
    THEN ItemErr("Missing geom for '" \o Str(Unwrap(a.name)) \o "'")
    ELSE ItemOk([name             |-> Unwrap(a.name),
                 class            |-> Unwrap(a.class),
                 type_            |-> a.type_,
                 lower_bound      |-> Unwrap(a.lower_bound),
                 upper_bound      |-> Unwrap(a.upper_bound),
                 geom             |-> Unwrap(a.geom),
                 frequency        |-> a.frequency,
                 call_sign        |-> a.call_sign,
                 transponder_code |-> a.transponder_code,
                 activation_times |-> a.activation_times])

\* Faulty variant of FinishAtEof: the end of the input without a class is a
\* failure.
FinishAtEofMissingClass(a) ==
    IF IsSome(a.class) THEN Finish(a) ELSE ItemErr("Missing class")

\* `if let Some(class) = class` at end of input.
FinishAtEof(a) == IF IsSome(a.class) THEN Finish(a) ELSE ItemNone

\* Faulty variant of IsBoundary: a class declaration never ends an airspace.
IsBoundaryNever(rec, a) == FALSE

\* Faulty variant of IsBoundary: a second name record ends the airspace too.
IsBoundaryAtName(rec, a) ==
    \/ rec.kind = "AirspaceClass" /\ IsSome(a.class)
    \/ rec.kind = "AirspaceName" /\ IsSome(a.name) /\ IsSome(a.class)

\* "a new AirspaceClass record and we already have accumulated an airspace"
IsBoundary(rec, a) == rec.kind = "AirspaceClass" /\ IsSome(a.class)

\* Faulty variant of BufferAtBoundary: the line is not kept for the next pull.
BufferNotKept == FALSE

\* What use_buffered_line is set to when the boundary is detected.
BufferAtBoundary == TRUE

\* One pass of the loop body on a line that was fetched: the loop goes on
\* (ret = FALSE) or next_airspace returns `item`; `buffer` is the value
\* use_buffered_line has afterwards, `took` whether the line went past
\* the boundary test (or failed to parse).
LoopBody(a, ln) ==
    Let(ParseLine(ln), LAMBDA p :
        IF ~p.ok
        THEN [ret |-> TRUE, item |-> ItemErr(p.err), acc |-> a,
              buffer |-> FALSE, took |-> TRUE]
        ELSE IF IsBoundary(Unwrap(p.val), a)
        THEN [ret |-> TRUE, item |-> Finish(a), acc |-> a,
              buffer |-> BufferAtBoundary, took |-> FALSE]
        ELSE Let(ProcessRecord(a, Unwrap(p.val)), LAMBDA r :
                 IF r.ok
                 THEN [ret |-> FALSE, item |-> ItemNone, acc |-> r.acc,
                       buffer |-> FALSE, took |-> TRUE]
                 ELSE [ret |-> TRUE, item |-> ItemErr(r.err), acc |-> r.acc,
                       buffer |-> FALSE, took |-> TRUE]))

-----------------------------------------------------------------------------
(* The iterator *)

\* No call of write.
NothingWritten == airspaces = <<>> /\ written_count = 0 /\ writer = <<>>

\* No call of a parser or writer on its own.
NoCall == arg = [type |-> "none"] /\ call_text = None /\ out = None

\* OpenAirIterator::new has read the first line into the buffer.
Init ==
    /\ input \in Files
    /\ pos = IF input = <<>> THEN 0 ELSE 1
    /\ line = IF input = <<>> THEN EmptyLine ELSE input[1]
    /\ use_buffered_line = TRUE
    /\ acc = EmptyAcc
    /\ pc = "idle"
    /\ results = <<>>
    /\ fed = <<>>
    /\ mark = 0
    /\ NothingWritten
    /\ NoCall

NoneCount == Cardinality({i \in DOMAIN results : results[i].kind = "None"})

\* Faulty variant of FreshAcc: the carry-over variables outlive the pull.
StaleCarryAcc == [EmptyAcc EXCEPT !.var_x = acc.var_x, !.var_d = acc.var_d]

\* next() is called: next_airspace starts with fresh local variables.
FreshAcc == EmptyAcc

Pull ==
    /\ pc = "idle"
    /\ NoneCount <= MaxPullsAfterEnd
    /\ acc' = FreshAcc
    /\ pc' = "loop"
    /\ mark' = Len(fed)
    /\ UNCHANGED <<input, pos, line, use_buffered_line, results, fed>>
    /\ UNCHANGED <<write_vars, call_vars>>

\* The effect of one pass of the loop body on the line numbered n.
Pass(o, n) ==
    /\ acc' = o.acc
    /\ use_buffered_line' = o.buffer
    /\ pc' = IF o.ret THEN "idle" ELSE "loop"
    /\ results' = IF o.ret THEN Append(results, o.item) ELSE results
    /\ fed' = IF o.took /\ n > 0 THEN Append(fed, n) ELSE fed

\* The loop takes the buffered line and does not involve the reader.
UseBufferedLine ==
    /\ pc = "loop"
    /\ use_buffered_line
    /\ Pass(LoopBody(acc, line), pos)
    /\ UNCHANGED <<input, pos, line, mark>>
    /\ UNCHANGED <<write_vars, call_vars>>

\* A read of the reader that fails: Err(e) of read_until.
ReadError(e) == [error |-> e]

IsReadError(item) == "error" \in DOMAIN item

\* The loop reads a line from the reader.
ReadLine ==
    /\ pc = "loop"
    /\ ~use_buffered_line
    /\ pos < Len(input)
    /\ ~IsReadError(input[pos + 1])
    /\ pos' = pos + 1
    /\ line' = input[pos + 1]
    /\ Pass(LoopBody(acc, input[pos + 1]), pos + 1)
    /\ UNCHANGED <<input, mark>>
    /\ UNCHANGED <<write_vars, call_vars>>

\* The read returns zero bytes: the end of the file.
ReachedEof ==
    /\ pc = "loop"
    /\ ~use_buffered_line
    /\ pos = Len(input)
    /\ line' = EmptyLine
    /\ results' = Append(results, FinishAtEof(acc))
    /\ pc' = "idle"
    /\ UNCHANGED <<input, pos, use_buffered_line, acc, fed, mark>>
    /\ UNCHANGED <<write_vars, call_vars>>

\* next_airspace run to its return, on file f with the cursor at p, the flag
\* b and the accumulator a: the item returned, the cursor and the flag.
RECURSIVE PullFrom(_, _, _, _)
PullFrom(f, p, b, a) ==
    Let(IF b THEN p ELSE p + 1, LAMBDA q :
        IF ~b /\ p = Len(f)
        THEN [item |-> FinishAtEof(a), pos |-> p, buffered |-> FALSE]
        ELSE Let(LoopBody(a, IF q = 0 THEN EmptyLine ELSE f[q]), LAMBDA o :
                 IF o.ret
                 THEN [item |-> o.item, pos |-> q, buffered |-> o.buffer]
                 ELSE PullFrom(f, q, o.buffer, o.acc)))

\* The items next() returns when it is called until it returns None.
RECURSIVE DrainFrom(_, _, _)
DrainFrom(f, p, b) ==
    LET r == PullFrom(f, p, b, EmptyAcc)
    IN  IF r.item = ItemNone THEN <<ItemNone>>
        ELSE <<r.item>> \o DrainFrom(f, r.pos, r.buffered)

\* parse(reader) pulled to exhaustion on file f.
ParseAll(f) == DrainFrom(f, IF f = <<>> THEN 0 ELSE 1, TRUE)

Next == Pull \/ UseBufferedLine \/ ReadLine \/ ReachedEof

Spec == Init /\ [][Next]_vars

-----------------------------------------------------------------------------
(* Vocabulary of the properties: the text of the input, read without the   *)
(* iterator                                                                *)

Tag(ln) == <<ln.t1, ln.t2>>

IsAC(ln) == Tag(ln) = <<"A", "C">>

IsIgnorable(ln) ==
    \/ ln.t1 = ""
    \/ ln.t1 = "*"
    \/ Tag(ln) \in {<<"A", "T">>, <<"S", "P">>, <<"S", "B">>}

IsGeometryLine(ln) == Tag(ln) \in {<<"D", "P">>, <<"D", "C">>, <<"D", "A">>, <<"D", "B">>}

Last(s) == s[Len(s)]

\* The numbers of the class-declaration lines of file f, and the k-th of them.
ACIndices(f) == {i \in DOMAIN f : IsAC(f[i])}

NthAC(f, k) ==
    CHOOSE i \in ACIndices(f) : Cardinality({j \in ACIndices(f) : j <= i}) = k

\* The numbers of the lines of the k-th airspace of f: from its class
\* declaration up to the next one (or the end of the file).
GroupOf(f, k) ==
    LET first == NthAC(f, k)
        later == {j \in ACIndices(f) : j > first}
        stop  == IF later = {} THEN Len(f) + 1
                 ELSE CHOOSE j \in later : \A l \in later : j <= l
    IN  first .. (stop - 1)

\* The lines numbered G of f whose tag is tag.
Tagged(f, G, tag) == {i \in G : Tag(f[i]) = tag}

OnceOnlyTags ==
    {<<"A", "N">>, <<"A", "L">>, <<"A", "H">>, <<"A", "Y">>, <<"A", "F">>,
     <<"A", "G">>, <<"A", "X">>, <<"A", "A">>}

\* A well-formed body: every line is a record of the grammar; name and
\* bounds once, the optional fields at most once; a geometry that is one
\* circle or a list of points, arcs and arc segments, the circle, arcs and
\* arc segments after a centerpoint.
WellFormedGroup(f, G) ==
    /\ \A i \in G : ParseLine(f[i]).ok
    /\ \A tag \in OnceOnlyTags : Cardinality(Tagged(f, G, tag)) <= 1
    /\ \A tag \in {<<"A", "N">>, <<"A", "L">>, <<"A", "H">>} :
            Cardinality(Tagged(f, G, tag)) = 1
    /\ \E i \in G : IsGeometryLine(f[i])
    /\ \A i \in G :
            Tag(f[i]) \in {<<"D", "C">>, <<"D", "A">>, <<"D", "B">>}
                => \E j \in G : j < i /\ Tag(f[j]) = <<"V", "X">>
    /\ \A i \in Tagged(f, G, <<"D", "C">>) :
            \A j \in G : IsGeometryLine(f[j]) => j = i

\* N class-declaration lines, each followed by a well-formed body; nothing
\* but ignorable lines before the first.
WellFormedFile(f) ==
    /\ \A i \in DOMAIN f : (\A j \in ACIndices(f) : i < j) => IsIgnorable(f[i])
    /\ \A k \in 1..Cardinality(ACIndices(f)) : WellFormedGroup(f, GroupOf(f, k))

\* The payload of the one line of G with this tag.
FieldOf(f, G, tag) == f[CHOOSE i \in G : Tag(f[i]) = tag].data

\* Airspace a is built from the lines numbered G of f.
BuiltFrom(a, f, G) ==
    /\ a.class = ClassCodes[Str(FieldOf(f, G, <<"A", "C">>))]
    /\ a.name = FieldOf(f, G, <<"A", "N">>)
    /\ a.lower_bound = Unwrap(AltitudeParse(FieldOf(f, G, <<"A", "L">>)).val)
    /\ a.upper_bound = Unwrap(AltitudeParse(FieldOf(f, G, <<"A", "H">>)).val)
    /\ IF Tagged(f, G, <<"D", "C">>) # {}
       THEN a.geom.kind = "Circle"
       ELSE /\ a.geom.kind = "Polygon"
            /\ Len(a.geom.segments) = Cardinality({i \in G : IsGeometryLine(f[i])})

\* The iterator has returned None.
Exhausted == NoneCount >= 1

-----------------------------------------------------------------------------
(* C1: a file of N class-declaration lines, each followed by a well-formed *)
(* body, yields exactly N successful airspaces, the k-th built from the    *)
(* k-th class declaration and the records up to the next one, in input     *)
(* order, and then the end of the sequence.                                *)
C1_WellFormedYieldsN ==
    (results # <<>> /\ WellFormedFile(input)) =>
        LET N == Cardinality(ACIndices(input))
        IN  /\ \A i \in DOMAIN results :
                   IF i <= N
                   THEN /\ results[i].kind = "Ok"
                        /\ BuiltFrom(Unwrap(results[i].airspace), input,
                                     GroupOf(input, i))
                   ELSE results[i] = ItemNone
            /\ Exhausted => Len(results) >= N + 1

\* Two airspaces, the second starting right after the last record of the
\* first, have both been yielded and the sequence has ended.
C1_Witness ==
    /\ WellFormedFile(input)
    /\ Cardinality(ACIndices(input)) = 2
    /\ ~ \E i \in DOMAIN input : IsIgnorable(input[i])
    /\ Len(results) = 3
    /\ results[1].kind = "Ok" /\ results[2].kind = "Ok"
    /\ Unwrap(results[1].airspace).name # Unwrap(results[2].airspace).name
    /\ results[3] = ItemNone

-----------------------------------------------------------------------------
(* Vocabulary of the properties: the pull in progress                      *)

\* The line the next pass of the loop takes: the buffered line, the next
\* line of the reader, or none at the end of the file.
Incoming ==
    IF use_buffered_line THEN Some(line)
    ELSE IF pos < Len(input) THEN Some(input[pos + 1])
    ELSE None

\* The kind of record that line is recognized as ("" when there is no line
\* or it is malformed).
IncomingKind ==
    IF pc = "loop" /\ IsSome(Incoming) /\ ParseLine(Unwrap(Incoming)).ok
    THEN Unwrap(ParseLine(Unwrap(Incoming)).val).kind
    ELSE ""

\* The numbers of the input lines the latest pull has consumed.
PullLines == {fed[i] : i \in (mark + 1)..Len(fed)}

\* The step returns this item.
Returns(item) == results' = Append(results, item) /\ pc' = "idle"

\* The input lines consumed so far.
Consumed == IF use_buffered_line THEN pos - 1 ELSE pos

-----------------------------------------------------------------------------
(* C2: every input line is taken through the loop body exactly once and in *)
(* input order; the class declaration that ends an airspace is kept in the *)
(* buffer, not consumed into the airspace it ends and not read again, and  *)
(* is the first line the next pull takes.                                  *)
C2_EachLineFedOnce ==
    /\ fed = [i \in 1..Consumed |-> i]
    /\ (use_buffered_line /\ pos > 0) => line = input[pos]
    /\ (use_buffered_line /\ results # <<>>) =>
            IsAC(line) /\ Last(results).kind # "None"

\* The class declaration that ended an airspace has been replayed as the
\* first line of the next pull.
C2_Witness ==
    /\ pc = "loop"
    /\ ~use_buffered_line
    /\ results # <<>> /\ Last(results).kind = "Ok"
    /\ IsAC(line)
    /\ fed # <<>> /\ Last(fed) = pos
    /\ mark = Len(fed) - 1
    /\ IsSome(acc.class)

-----------------------------------------------------------------------------
(* C3: a second record for name, lower bound, upper bound, type,           *)
(* frequency, call sign, transponder code or activation times makes the    *)
(* pull fail with a message naming the field; a value once set is not      *)
(* overwritten.                                                            *)
OnceOnly ==
    {[kind |-> "AirspaceName",    fld |-> "name",             label |-> "name"],
     [kind |-> "LowerBound",      fld |-> "lower_bound",      label |-> "lower_bound"],
     [kind |-> "UpperBound",      fld |-> "upper_bound",      label |-> "upper_bound"],
     [kind |-> "AirspaceType",    fld |-> "type_",            label |-> "type"],
     [kind |-> "Frequency",       fld |-> "frequency",        label |-> "frequency"],
     [kind |-> "CallSign",        fld |-> "call_sign",        label |-> "call_sign"],
     [kind |-> "TransponderCode", fld |-> "transponder_code", label |-> "transponder_code"],
     [kind |-> "ActivationTimes", fld |-> "activation_times", label |-> "activation_times"]}

C3_SecondRecordFails ==
    [][\A m \in OnceOnly :
          (pc = "loop" /\ IsSome(acc[m.fld])) =>
              /\ acc'[m.fld] = acc[m.fld]
              /\ IncomingKind = m.kind =>
                     Returns(ItemErr("Could not set " \o m.label
                                     \o " (already defined)"))]_vars

\* A second name has been refused and the first one is still there.
C3_Witness ==
    /\ pc = "idle"
    /\ results # <<>>
    /\ Last(results) = ItemErr("Could not set name (already defined)")
    /\ acc.name = Some(n1)
    /\ line = AN(n2)

-----------------------------------------------------------------------------
(* C4: the geometry under assembly is unset, a Polygon or a Circle and     *)
(* never changes kind: a point, arc or arc segment after a Circle fails    *)
(* with 'Cannot add a point to a circle', a circle radius after any        *)
(* geometry fails with 'Geometry already set'.                             *)
GeomIsOneKind(g) ==
    \/ g = None
    \/ Unwrap(g).kind = "Polygon" /\ DOMAIN Unwrap(g) = {"kind", "segments"}
    \/ Unwrap(g).kind = "Circle"
          /\ DOMAIN Unwrap(g) = {"kind", "centerpoint", "radius"}

C4_GeometryKeepsKind ==
    [][/\ GeomIsOneKind(acc.geom) /\ GeomIsOneKind(acc'.geom)
       /\ (pc = "loop" /\ IsSome(acc.geom)) =>
            /\ IsSome(acc'.geom)
            /\ Unwrap(acc'.geom).kind = Unwrap(acc.geom).kind
            /\ (Unwrap(acc.geom).kind = "Circle"
                  /\ IncomingKind \in {"Point", "ArcData", "ArcSegmentData"})
                 => Returns(ItemErr("Cannot add a point to a circle")) /\ acc' = acc
            /\ IncomingKind = "CircleRadius"
                 => Returns(ItemErr("Geometry already set")) /\ acc' = acc]_vars

\* A point has been refused after a circle.
C4_Witness ==
    /\ pc = "idle"
    /\ results # <<>>
    /\ Last(results) = ItemErr("Cannot add a point to a circle")
    /\ IsSome(acc.geom) /\ Unwrap(acc.geom).kind = "Circle"
    /\ Tag(line) = <<"D", "P">>

-----------------------------------------------------------------------------
(* C5: a circle radius, arc segment or arc that arrives while no           *)
(* centerpoint is set fails with 'Centerpoint missing' and leaves the      *)
(* geometry as it is; a circle radius with a geometry set and no           *)
(* centerpoint fails with 'Geometry already set'.  With a centerpoint set  *)
(* and no conflicting geometry the record is accepted.                     *)
C5_CenterpointRequired ==
    [][(pc = "loop" /\ IncomingKind \in {"CircleRadius", "ArcSegmentData", "ArcData"}) =>
          IF acc.var_x = None
          THEN /\ acc'.geom = acc.geom
               /\ Returns(ItemErr(IF IncomingKind = "CircleRadius" /\ IsSome(acc.geom)
                                  THEN "Geometry already set"
                                  ELSE "Centerpoint missing"))
          ELSE (acc.geom = None) => (pc' = "loop" /\ IsSome(acc'.geom))]_vars

\* An arc has been refused for want of a centerpoint, after a point.
C5_Witness ==
    /\ pc = "idle"
    /\ results # <<>>
    /\ Last(results) = ItemErr("Centerpoint missing")
    /\ Tag(line) = <<"D", "B">>
    /\ acc.var_x = None
    /\ IsSome(acc.geom)

-----------------------------------------------------------------------------
(* C6: when an accumulator is finished, at a new class declaration or at   *)
(* the end of the input, an airspace is yielded only if name, class, lower *)
(* bound, upper bound and geometry are all present; otherwise the pull     *)
(* fails with 'Missing name', or with a message citing the name and the    *)
(* first absent of lower bound, upper bound and geometry.                  *)
HasLine(tag) == Tagged(input, PullLines, tag) # {}

HasGeometry == \E i \in PullLines : IsGeometryLine(input[i])

\* The accumulator of this pull holds a class and the pull is about to end.
FinishingStep ==
    /\ pc = "loop"
    /\ HasLine(<<"A", "C">>)
    /\ (Incoming = None \/ IncomingKind = "AirspaceClass")

AllPresent ==
    /\ HasLine(<<"A", "C">>) /\ HasLine(<<"A", "N">>) /\ HasLine(<<"A", "L">>)
    /\ HasLine(<<"A", "H">>) /\ HasGeometry

\* The failure for the first absent field.
MissingField ==
    LET nm == FieldOf(input, PullLines, <<"A", "N">>)
    IN  IF ~HasLine(<<"A", "N">>) THEN ItemErr("Missing name")
        ELSE IF ~HasLine(<<"A", "L">>)
        THEN ItemErr("Missing lower bound for '" \o Str(nm) \o "'")
        ELSE IF ~HasLine(<<"A", "H">>)
        THEN ItemErr("Missing upper bound for '" \o Str(nm) \o "'")
        ELSE ItemErr("Missing geom for '" \o Str(nm) \o "'")

C6_FinishRequiresAllFields ==
    [][/\ FinishingStep =>
            /\ pc' = "idle"
            /\ Len(results') = Len(results) + 1
            /\ IF AllPresent
               THEN /\ Last(results').kind = "Ok"
                    /\ BuiltFrom(Unwrap(Last(results').airspace), input, PullLines)
               ELSE Last(results') = MissingField
       /\ (Len(results') > Len(results) /\ Last(results').kind = "Ok")
            => FinishingStep /\ AllPresent]_vars

\* An airspace with name and lower bound and nothing else has been
\* finished by the next class declaration.
C6_Witness ==
    /\ pc = "idle"
    /\ use_buffered_line
    /\ results # <<>>
    /\ Last(results) = ItemErr("Missing upper bound for 'n1'")
    /\ acc.geom = None

-----------------------------------------------------------------------------
(* C7: at the end of the input, if at least one non-ignorable record has   *)
(* been consumed for the current airspace, the pull returns the final      *)
(* airspace or a missing-field failure; it returns the end of the sequence *)
(* only when no record has been accumulated.                               *)
Accumulates(ln) ==
    /\ ParseLine(ln).ok
    /\ Unwrap(ParseLine(ln).val).kind \notin IgnoredKinds

C7_EofFinishesAccumulated ==
    (pc = "idle" /\ results # <<>> /\ Last(results) = ItemNone)
        => \A i \in PullLines : ~Accumulates(input[i])

-----------------------------------------------------------------------------
(* C8: once a pull has returned a failure, no later pull yields an         *)
(* airspace.                                                               *)
C8_FailureIsFatal ==
    \A i, j \in DOMAIN results :
        (i < j /\ results[i].kind = "Err") => results[j].kind # "Ok"

-----------------------------------------------------------------------------
(* C9: the carry-over variables are reset when a new airspace starts.  A   *)
(* circle radius, arc segment or arc of an airspace that has no            *)
(* centerpoint record of its own fails ('Centerpoint missing'; for a       *)
(* circle radius after a geometry record of the same airspace, 'Geometry   *)
(* already set'), whatever the airspaces before it set; an arc segment or  *)
(* arc of an airspace that has no direction record of its own gets         *)
(* direction Clockwise.                                                    *)
C9_CarryOverReset ==
    [][/\ (pc = "loop" /\ ~HasLine(<<"V", "X">>)
            /\ IncomingKind \in {"CircleRadius", "ArcSegmentData", "ArcData"})
           => Returns(ItemErr(IF IncomingKind = "CircleRadius" /\ HasGeometry
                              THEN "Geometry already set"
                              ELSE "Centerpoint missing"))
       /\ (pc = "loop" /\ ~HasLine(<<"V", "D">>) /\ pc' = "loop"
            /\ IncomingKind \in {"ArcSegmentData", "ArcData"})
           => Last(Unwrap(acc'.geom).segments).direction = "Cw"]_vars

\* A pull that consumed a centerpoint has ended at a class declaration; in
\* the airspace that declaration starts a circle radius has been refused.
C9_Witness ==
    /\ pc = "idle"
    /\ Len(results) >= 2
    /\ Last(results) = ItemErr("Centerpoint missing")
    /\ \E j \in 1..mark : Tag(input[fed[j]]) = <<"V", "X">>
    /\ HasLine(<<"A", "C">>) /\ ~HasLine(<<"V", "X">>)
    /\ Tag(line) = <<"D", "C">>

-----------------------------------------------------------------------------
(* C10: blank, comment, pen, brush and label-placement lines leave the     *)
(* accumulator with its carry-over variables and the results as they are   *)
(* and never mark a line as buffered; the results of a file are those of   *)
(* the file with every such line deleted.                                  *)
Strip(f) == SelectSeq(f, LAMBDA ln : ~IsIgnorable(ln))

\* The results up to the first None.
UpToNone(rs) ==
    SubSeq(rs, 1, CHOOSE i \in DOMAIN rs :
                      rs[i] = ItemNone /\ \A j \in 1..(i - 1) : rs[j] # ItemNone)

C10_IgnoredLinesChangeNothing ==
    [][/\ (pc = "loop" /\ IsSome(Incoming) /\ IsIgnorable(Unwrap(Incoming)))
           => /\ acc' = acc
              /\ results' = results
              /\ pc' = "loop"
              /\ use_buffered_line' = FALSE
       /\ (NoneCount' >= 1) => UpToNone(results') = ParseAll(Strip(input))]_vars

\* A file with an ignorable line inside an airspace, after its centerpoint
\* and before the record that uses it, has been parsed to the end.
C10_Witness ==
    /\ Exhausted
    /\ results[1].kind = "Ok"
    /\ \E i \in DOMAIN input :
          /\ IsIgnorable(input[i])
          /\ \E j \in 1..(i - 1) : Tag(input[j]) = <<"V", "X">>
          /\ \E j \in (i + 1)..Len(input) : Tag(input[j]) = <<"D", "C">>

-----------------------------------------------------------------------------
(* C11: production is lazy and per airspace.  The reader is never more     *)
(* than one line ahead of the lines consumed; an airspace is yielded only  *)
(* when the class declaration that starts the next one has been read and   *)
(* is the line held in the buffer, every line before it consumed and none  *)
(* after it read, or when the end of the input has been reached; between   *)
(* two pulls nothing is read.                                              *)
C11_LazyPerAirspace ==
    [][/\ pos <= Len(fed) + 1 /\ pos' <= Len(fed') + 1
       /\ pc = "idle" => pos' = pos
       /\ (Len(results') > Len(results) /\ Last(results').kind = "Ok") =>
            /\ PullLines # {}
            /\ fed' = fed
            /\ \/ /\ use_buffered_line'
                  /\ pos' = Last(fed) + 1
                  /\ IsAC(input[pos']) /\ line' = input[pos']
               \/ /\ ~use_buffered_line'
                  /\ pos' = Len(input) /\ Last(fed) = Len(input)]_vars

\* The first airspace has been yielded, the class declaration of the
\* second is in the buffer and the lines after it have not been read.
C11_Witness ==
    /\ pc = "idle"
    /\ Len(results) = 1 /\ results[1].kind = "Ok"
    /\ use_buffered_line /\ IsAC(line)
    /\ pos + 3 < Len(input)

-----------------------------------------------------------------------------
(* The parsers and writers of altitudes and coordinates, each called on    *)
(* its own                                                                 *)

\* The arguments: a value in metres, an altitude.
MetresArg(n) == [type |-> "Metres", metres |-> n]

AltitudeArg(a) == [type |-> "Altitude", altitude |-> a]

\* A coordinate, given by the signs and the tenths of arc-seconds of its
\* latitude and longitude.
CoordArg(lat_neg, lat_tenths, lng_neg, lng_tenths) ==
    [type |-> "Coord",
     coord |-> Coord(Degrees(lat_neg, lat_tenths), Degrees(lng_neg, lng_tenths)),
     lat_tenths |-> lat_tenths, lng_tenths |-> lng_tenths]

\* The text of a coordinate, given by its parts: the degrees field and what
\* follows it, for the latitude and for the longitude.
CoordTextArg(lat_deg, lat_tail, lng_deg, lng_tail) ==
    [type |-> "CoordText", lat_deg |-> lat_deg, lat_tail |-> lat_tail,
     lng_deg |-> lng_deg, lng_tail |-> lng_tail]

CoordTextOf(a) == a.lat_deg \o a.lat_tail \o <<" ">> \o a.lng_deg \o a.lng_tail

\* A field of a DA record: its text, whether str::parse::<f32> reads a
\* number from it ("num"), a NaN ("nan"), an infinity ("inf") or fails
\* ("bad"), and ten times the number.
Field(txt, kind, tenths) == [txt |-> txt, kind |-> kind, tenths |-> tenths]

\* A DA line, given by its fields.
ArcSegmentArg(fields) == [type |-> "ArcSegmentLine", fields |-> fields]

RECURSIVE Join(_)
Join(texts) ==
    IF texts = <<>> THEN <<>>
    ELSE IF Len(texts) = 1 THEN texts[1]
    ELSE texts[1] \o <<",", " ">> \o Join(Tail(texts))

ArcSegmentLineOf(a) ==
    <<"D", "A", " ">> \o Join([i \in DOMAIN a.fields |-> a.fields[i].txt]) \o <<"\r", "\n">>

\* Values in metres: small ones, and the ends of the range of m2ft with
\* their neighbours, and the ends of i32.
Metres ==
    {0, 1, -1, 5, 100, -200, 381, 8848, 654553015, 654553016, -654553016,
     -654553017, I32Max, I32Min}

Feet == {0, 1, -1, 4500, -200, I32Max, I32Min}

Altitudes ==
    {Gnd, Unlimited}
    \cup {FeetAmsl(n) : n \in Feet} \cup {FeetAgl(n) : n \in Feet}
    \cup {FlightLevel(n) : n \in {0, 95, U16Max}}
    \cup {Other(bad), Other(<<"1", "0", "0", " ", "f", "e", "e", "t">>)}

\* Whole arc-seconds from 0 to 90 and to 180 degrees (among them 2.4375 and
\* 46.8622... degrees), and values four and six tenths of an arc-second
\* away from a whole minute and a whole degree.
LatTenths == {0, 10, 87750, 1687040, 3239990, 3240000, 35996, 36004, 594, 606}

LngTenths == {0, 335820, 6479990, 6480000, 35996}

Coordinates ==
    {CoordArg(lat_neg, lat, lng_neg, lng) :
        lat_neg \in BOOLEAN, lat \in LatTenths, lng_neg \in BOOLEAN, lng \in LngTenths}

LatDegreeFields ==
    {<<>>, <<"0">>, <<"5">>, <<"4", "5">>, <<"9", "0">>, <<"9", "1">>, <<"9", "9">>,
     <<"0", "9", "0">>, <<"0", "4", "5">>, <<"1", "0", "0">>}

LngDegreeFields ==
    {<<>>, <<"0">>, <<"9">>, <<"0", "9">>, <<"0", "0", "9">>, <<"1", "8", "0">>,
     <<"1", "8", "1">>, <<"2", "5", "5">>, <<"2", "5", "6">>, <<"0", "1", "8", "0">>,
     <<"0", "0", "0", "9">>}

\* What follows the degrees, well formed: whole seconds, minutes and seconds
\* of 60 and more, decimal seconds, decimal minutes, lower-case direction.
GoodLatTails ==
    {<<":", "0", "0", ":", "0", "0", " ", "N">>, <<":", "3", "0", ":", "0", "0", " ", "N">>,
     <<":", "5", "9", ":", "5", "9", " ", "S">>, <<":", "6", "0", ":", "0", "0", "N">>,
     <<":", "9", "9", ":", "9", "9", " ", "s">>, <<":", "0", "0", ":", "0", "0", ".", "5", " ", "N">>,
     <<":", "5", "1", ".", "4", "4", " ", "N">>}

BadLatTails ==
    {<<":", "0", "0", " ", "N">>, <<":", "0", "0", ":", "0", "0", " ", "E">>,
     <<" ", "N">>, <<":", "1", "0", "0", ":", "0", "0", " ", "N">>}

GoodLngTails ==
    {<<":", "0", "0", ":", "0", "0", " ", "E">>, <<":", "3", "0", ":", "0", "0", " ", "W">>,
     <<":", "5", "9", ":", "5", "9", " ", "e">>, <<":", "9", "9", ":", "9", "9", "W">>,
     <<":", "1", "9", ".", "7", " ", "E">>}

BadLngTails ==
    {<<":", "0", "0", ":", "0", "0">>, <<":", "0", "0", ":", "0", "0", " ", "N">>,
     <<":", "0", "0", ":", "1", "0", "0", " ", "E">>}

CoordTexts ==
    {CoordTextArg(d, t, <<"0", "0", "9">>, <<":", "1", "9", ":", "4", "2", " ", "E">>) :
        d \in LatDegreeFields, t \in GoodLatTails \cup BadLatTails}
    \cup {CoordTextArg(<<"4", "6">>, <<":", "5", "1", ":", "4", "4", " ", "N">>, d, t) :
        d \in LngDegreeFields, t \in GoodLngTails \cup BadLngTails}

RadiusFields ==
    {Field(<<"5">>, "num", 50), Field(<<"-", "5">>, "num", -50),
     Field(<<"9", "9", "9", "9", "9">>, "num", 999990), Field(<<"N", "a", "N">>, "nan", 0),
     Field(<<"x">>, "bad", 0)}

AngleFields ==
    {Field(<<"0">>, "num", 0), Field(<<"3", "6", "0">>, "num", 3600),
     Field(<<"2", "7", "0">>, "num", 2700), Field(<<"3", "6", "1">>, "num", 3610),
     Field(<<"3", "6", "0", ".", "5">>, "num", 3605), Field(<<"-", "1">>, "num", -10),
     Field(<<"-", "0", ".", "5">>, "num", -5), Field(<<"N", "a", "N">>, "nan", 0),
     Field(<<"i", "n", "f">>, "inf", 0), Field(<<>>, "bad", 0)}

ArcSegmentLines ==
    {ArcSegmentArg(<<r, a, b>>) : r \in RadiusFields, a \in AngleFields, b \in AngleFields}
    \cup {ArcSegmentArg(fs) : fs \in SeqsUpTo({Field(<<"1", "0">>, "num", 100)}, 5)}

\* A part of the text of an altitude: its characters and what it stands for
\* (the value of a magnitude, -1 when it does not fit an i32; the unit; the
\* reference level of a keyword).
Part(txt, meaning) == [txt |-> txt, meaning |-> meaning]

\* The text of an altitude, given by its parts: magnitude, unit and
\* reference keyword, and the whitespace between them.
AltitudeTextArg(magnitude, sep1, unit, sep2, keyword) ==
    [type |-> "AltitudeText", magnitude |-> magnitude, sep1 |-> sep1, unit |-> unit,
     sep2 |-> sep2, keyword |-> keyword]

AltitudeTextOf(a) == a.magnitude.txt \o a.sep1 \o a.unit.txt \o a.sep2 \o a.keyword.txt

\* A keyword that is an altitude on its own.
AltitudeWordArg(txt, altitude) == [type |-> "AltitudeWord", txt |-> txt, altitude |-> altitude]

\* Magnitudes: zero, small values, a value with leading zeros, the ends of
\* the range of m2ft, the greatest i32 and the number after it.
Magnitudes ==
    {Part(<<"0">>, 0), Part(<<"4", "2">>, 42), Part(<<"1", "0", "0">>, 100),
     Part(<<"0", "0", "7">>, 7),
     Part(<<"6", "5", "4", "5", "5", "3", "0", "1", "5">>, 654553015),
     Part(<<"6", "5", "4", "5", "5", "3", "0", "1", "6">>, 654553016),
     Part(<<"2", "1", "4", "7", "4", "8", "3", "6", "4", "7">>, I32Max),
     Part(<<"2", "1", "4", "7", "4", "8", "3", "6", "4", "8">>, -1)}

NoUnit == Part(<<>>, "none")

Units ==
    {Part(<<"f", "t">>, "ft"), Part(<<"F", "T">>, "ft"), Part(<<"F", "t">>, "ft"),
     Part(<<"m">>, "m"), Part(<<"M">>, "m")}

NoKeyword == Part(<<>>, "amsl")

Keywords ==
    {Part(<<"A", "M", "S", "L">>, "amsl"), Part(<<"a", "m", "s", "l">>, "amsl"),
     Part(<<"a", "M", "s", "L">>, "amsl"), Part(<<"M", "S", "L">>, "amsl"),
     Part(<<"m", "s", "l">>, "amsl"), Part(<<"M", "s", "l">>, "amsl"),
     Part(<<"A", "G", "L">>, "agl"), Part(<<"a", "g", "l">>, "agl"),
     Part(<<"A", "g", "L">>, "agl"), Part(<<"G", "N", "D">>, "agl"),
     Part(<<"g", "n", "d">>, "agl"), Part(<<"S", "F", "C">>, "agl"),
     Part(<<"S", "f", "c">>, "agl")}

\* The whitespace between two parts, and before a keyword that follows a unit.
Gaps == {<<>>, <<" ">>, <<" ", " ">>}

WideGaps == {<<" ">>, <<" ", " ", " ">>}

\* Every magnitude in every unit form with every keyword: without a unit the
\* keyword follows the magnitude, with a unit it follows the unit after
\* whitespace.
AltitudeTexts ==
    {AltitudeTextArg(n, g, NoUnit, <<>>, k) :
        n \in Magnitudes, g \in Gaps, k \in Keywords \cup {NoKeyword}}
    \cup {AltitudeTextArg(n, g, u, w, k) :
            n \in Magnitudes, g \in Gaps, u \in Units, w \in WideGaps, k \in Keywords}
    \cup {AltitudeTextArg(n, g, u, w, NoKeyword) :
            n \in Magnitudes, g \in Gaps, u \in Units, w \in {<<>>, <<" ">>}}

AltitudeWords ==
    {AltitudeWordArg(w, Gnd) :
        w \in {<<"G", "N", "D">>, <<"g", "n", "d">>, <<"G", "n", "d">>,
               <<"S", "F", "C">>, <<"s", "f", "c">>, <<"s", "F", "c">>}}
    \cup {AltitudeWordArg(w, Unlimited) :
        w \in {<<"U", "N", "L">>, <<"u", "n", "l">>, <<"U", "N", "L", "I", "M">>,
               <<"U", "n", "l", "i", "m">>, <<"U", "N", "L", "T", "D">>,
               <<"u", "n", "L", "t", "d">>, <<"U", "N", "L", "I", "M", "I", "T", "E", "D">>,
               <<"U", "n", "l", "i", "m", "i", "t", "e", "d">>}}

\* The text of a line, given by the whitespace before and after it and what
\* is between them, and the two characters of its record type.
TagLineArg(lead, body, trail, t1, t2) ==
    [type |-> "TagLine", lead |-> lead, body |-> body, trail |-> trail, t1 |-> t1, t2 |-> t2]

TagLineOf(a) == a.lead \o a.body \o a.trail

\* A trimmed line and the two characters of its record type.
Body(txt, t1, t2) == [txt |-> txt, t1 |-> t1, t2 |-> t2]

\* Lines whose record type starts with A and is none of the grammar: also
\* with a lower-case letter, with a space after the A, and an A alone.
ExtensionBodies ==
    {Body(<<"A", "Z">>, "A", "Z"), Body(<<"A", "Z", " ", "x">>, "A", "Z"),
     Body(<<"A", "B", " ", "s", "o", "m", "e", " ", " ", "t", "e", "x", "t">>, "A", "B"),
     Body(<<"A", "1", " ", "1">>, "A", "1"), Body(<<"A", "x", " ", "7", "0", "0", "0">>, "A", "x"),
     Body(<<"A", "c", " ", "D">>, "A", "c"), Body(<<"A", " ", "Z">>, "A", "Z"),
     Body(<<"A">>, "A", " "), Body(<<"A", "*">>, "A", "*")}

\* Lines of every record type of the grammar.
KnownBodies ==
    {Body(<<"A", "C", " ", "D">>, "A", "C"), Body(<<"A", "N", " ">> \o n1, "A", "N"),
     Body(<<"A", " ", "N", " ", "x">>, "A", "N"),
     Body(<<"A", "L", " ">> \o gnd, "A", "L"), Body(<<"A", "H", " ">> \o unlim, "A", "H"),
     Body(<<"A", "T", " ">> \o c1, "A", "T"), Body(<<"A", "Y", " ", "t">>, "A", "Y"),
     Body(<<"A", "F", " ", "1", "2", "3", ".", "5">>, "A", "F"),
     Body(<<"A", "G", " ", "g">>, "A", "G"), Body(<<"A", "X", " ", "7", "0", "0", "0">>, "A", "X"),
     Body(<<"A", "A", " ", "N", "O", "N", "E">>, "A", "A"),
     Body(<<"S", "P", " ", "0", ",", "0">>, "S", "P"), Body(<<"S", "B", " ", "1">>, "S", "B"),
     Body(<<"V", " ", "X", "=">> \o c1, "V", "X"), Body(<<"V", " ", "D", "=", "+">>, "V", "D"),
     Body(<<"D", "P", " ">> \o c1, "D", "P"), Body(<<"D", "C", " ", "5">>, "D", "C"),
     Body(<<"D", "A", " ", "1", "0", ",", " ", "2", "7", "0", ",", " ", "2", "9", "0">>, "D", "A"),
     Body(<<"D", "B", " ">> \o c1 \o <<",", " ">> \o c2, "D", "B"),
     Body(<<"*">>, "*", " "), Body(<<"*", " ", "A", "Z">>, "*", "A"),
     Body(<<"*", "*", "x">>, "*", "*")}

\* Lines whose record type is none of the grammar and starts with neither A
\* nor an asterisk.
UnknownBodies ==
    {Body(<<"X", "X">>, "X", "X"), Body(<<"X", "X", " ", "x">>, "X", "X"),
     Body(<<"D", "X", " ", "5">>, "D", "X"), Body(<<"S", "X">>, "S", "X"),
     Body(<<"V", "Z", "=", "1">>, "V", "Z"), Body(<<"V">>, "V", " "), Body(<<"D">>, "D", " "),
     Body(<<"a", "c", " ", "D">>, "a", "c"), Body(<<"d", "p", " ">> \o c1, "d", "p"),
     Body(<<"1", " ", "2">>, "1", "2"), Body(<<"B">>, "B", " "),
     Body(<<"Z", "A", " ", "x">>, "Z", "A"), Body(<<"P", "D", " ">> \o c1, "P", "D")}

TagLines ==
    {TagLineArg(lead, b.txt, trail, b.t1, b.t2) :
        lead \in {<<>>, <<" ", " ">>, <<"\t">>},
        b \in ExtensionBodies \cup KnownBodies \cup UnknownBodies,
        trail \in {<<>>, <<"\r", "\n">>, <<" ", "\n">>}}

\* A DB line, given by the texts of its coordinates.
ArcLineArg(coords) == [type |-> "ArcLine", coords |-> coords]

ArcLineOf(a) == <<"D", "B", " ">> \o Join(a.coords)

\* The same coordinate with a comma between latitude and longitude.
c1Comma == <<"4", "6", ":", "5", "1", ":", "4", "4", " ", "N", ",", " ",
             "0", "0", "9", ":", "1", "9", ":", "4", "2", " ", "E">>

\* The same, with lower-case directions and no whitespace.
c1Tight == <<"4", "6", ":", "5", "1", ":", "4", "4", "n", ",",
             "0", "0", "9", ":", "1", "9", ":", "4", "2", "e">>

\* The same, with lower-case directions and no comma.
c1Lower == <<"4", "6", ":", "5", "1", ":", "4", "4", "n", " ",
             "0", "0", "9", ":", "1", "9", ":", "4", "2", "e">>

CoordNotations == {c1, c2, c1Lower, c1Comma, c1Tight, bad}

MaxCoords == 3

ArcLines == {ArcLineArg(cs) : cs \in SeqsUpTo(CoordNotations, MaxCoords)}

CallArgs ==
    {MetresArg(n) : n \in Metres} \cup {AltitudeArg(a) : a \in Altitudes}
    \cup AltitudeTexts \cup AltitudeWords
    \cup Coordinates \cup CoordTexts \cup ArcSegmentLines \cup TagLines \cup ArcLines

CallsInit ==
    /\ arg \in CallArgs
    /\ call_text = CASE arg.type = "CoordText" -> Some(CoordTextOf(arg))
                     [] arg.type = "AltitudeText" -> Some(AltitudeTextOf(arg))
                     [] arg.type = "AltitudeWord" -> Some(arg.txt)
                     [] arg.type = "TagLine" -> Some(TagLineOf(arg))
                     [] arg.type = "ArcSegmentLine" -> Some(ArcSegmentLineOf(arg))
                     [] arg.type = "ArcLine" -> Some(ArcLineOf(arg))
                     [] OTHER -> None
    /\ out = None
    /\ input = <<>>
    /\ pos = 0
    /\ line = EmptyLine
    /\ use_buffered_line = TRUE
    /\ acc = EmptyAcc
    /\ pc = "call"
    /\ results = <<>>
    /\ fed = <<>>
    /\ mark = 0
    /\ NothingWritten

\* Altitude::m2ft(val)
M2ftCall ==
    /\ arg.type = "Metres"
    /\ out = None
    /\ out' = Some(M2ft(arg.metres))
    /\ UNCHANGED <<arg, call_text, parse_vars, write_vars>>

\* altitude.write(&mut buffer)
AltitudeWriteCall ==
    /\ arg.type = "Altitude"
    /\ call_text = None
    /\ call_text' = Some(AltitudeWrite(arg.altitude))
    /\ UNCHANGED <<arg, out, parse_vars, write_vars>>

\* Altitude::parse(&buffer)
AltitudeParseCall ==
    /\ arg.type \in {"Altitude", "AltitudeText", "AltitudeWord"}
    /\ call_text # None
    /\ out = None
    /\ out' = Some(AltitudeParse(Unwrap(call_text)))
    /\ UNCHANGED <<arg, call_text, parse_vars, write_vars>>

\* coord.write(&mut buffer)
CoordWriteCall ==
    /\ arg.type = "Coord"
    /\ call_text = None
    /\ call_text' = Some(CoordWrite(arg.coord))
    /\ UNCHANGED <<arg, out, parse_vars, write_vars>>

\* Coord::parse(&buffer)
CoordParseCall ==
    /\ arg.type \in {"Coord", "CoordText"}
    /\ call_text # None
    /\ out = None
    /\ out' = Some(CoordParse(Unwrap(call_text)))
    /\ UNCHANGED <<arg, call_text, parse_vars, write_vars>>

\* Record::parse(line)
RecordParseCall ==
    /\ arg.type \in {"ArcSegmentLine", "TagLine", "ArcLine"}
    /\ out = None
    /\ out' = Some(RecordParse(Lex(Unwrap(call_text))))
    /\ UNCHANGED <<arg, call_text, parse_vars, write_vars>>

\* record.write(&mut writer), for the record that Record::parse returned
RecordWriteCall ==
    /\ arg.type \in {"ArcSegmentLine", "TagLine", "ArcLine"}
    /\ out # None
    /\ Unwrap(out).ok
    /\ pc = "call"
    /\ pc' = "wrote"
    /\ writer' = writer \o RecordWrite(Unwrap(Unwrap(out).val))
    /\ UNCHANGED <<input, pos, line, use_buffered_line, acc, results, fed, mark,
                   airspaces, written_count, call_vars>>

CallsNext ==
    \/ M2ftCall
    \/ AltitudeWriteCall
    \/ AltitudeParseCall
    \/ CoordWriteCall
    \/ CoordParseCall
    \/ RecordParseCall
    \/ RecordWriteCall

Calls == CallsInit /\ [][CallsNext]_vars

-----------------------------------------------------------------------------
(* C14: an altitude that is not the lenient fallback, written and parsed   *)
(* again, is the same altitude: every ground, unlimited, feet above mean   *)
(* sea level, feet above ground and flight level value, zero and negative  *)
(* values included.                                                        *)
C14_AltitudeRoundTrip ==
    (arg.type = "Altitude" /\ arg.altitude.kind # "Other" /\ out # None)
        => Unwrap(out) = POk(arg.altitude)

-----------------------------------------------------------------------------
(* C19: the conversion of metres to feet returns the integer nearest to    *)
(* n / 0.3048 for every n from -654553016 to 654553015, a value that fits  *)
(* 32 bits, and rejects every n outside that range.                        *)

\* r is the integer nearest to n * 1250 / 381: with r = 1250 * a + b and
\* n = 381 * q + t, twice the distance of 381 * r from 1250 * n is at most
\* 381.
Nearest(n, r) ==
    LET a == r \div 1250
        b == r % 1250
        q == n \div 381
        t == n % 381
        d == 476250 * (a - q) + 381 * b - 1250 * t
    IN  /\ a - q \in {-1, 0, 1}
        /\ 2 * (IF d < 0 THEN 0 - d ELSE d) <= 381

C19_M2ftNearestInRange ==
    (arg.type = "Metres" /\ out # None) =>
        IF -654553016 <= arg.metres /\ arg.metres <= 654553015
        THEN /\ Unwrap(out).ok
             /\ Nearest(arg.metres, Unwrap(Unwrap(out).val))
             /\ I32Min <= Unwrap(Unwrap(out).val)
             /\ Unwrap(Unwrap(out).val) <= I32Max
        ELSE ~Unwrap(out).ok

\* The greatest value of the range has been converted.
C19_Witness ==
    /\ arg = MetresArg(654553015)
    /\ out # None
    /\ Unwrap(out) = POk(2147483645)


(* Coordinates *)

\* The number written in the i-th field of the j-th word of a text such as
\* "46:51:44 N 009:19:42 E".
WrittenField(cs, j, i) == ParseUnsigned(Split(Split(cs, " ")[j], ":")[i], U16Max)

\* The component written in the j-th word has minutes and seconds in 0..59
\* and is `tenths` tenths of an arc-second, rounded to whole arc-seconds.
WrittenRight(cs, j, tenths) ==
    /\ Len(Split(cs, " ")) = 4
    /\ Len(Split(Split(cs, " ")[j], ":")) = 3
    /\ WrittenField(cs, j, 1) >= 0
    /\ WrittenField(cs, j, 2) \in 0..59
    /\ WrittenField(cs, j, 3) \in 0..59
    /\ WrittenField(cs, j, 1) * 3600 + WrittenField(cs, j, 2) * 60 + WrittenField(cs, j, 3)
           = (tenths + 5) \div 10

\* What Coord::write writes for every coordinate of the inputs.
C15_WrittenFields ==
    (arg.type = "Coord" /\ call_text # None) =>
        /\ WrittenRight(Unwrap(call_text), 1, arg.lat_tenths)
        /\ WrittenRight(Unwrap(call_text), 3, arg.lng_tenths)

\* What Coord::parse returns for the text of a coordinate of whole
\* arc-seconds.
C15_ParsedBack ==
    (/\ arg.type = "Coord"
     /\ arg.lat_tenths % 10 = 0
     /\ arg.lng_tenths % 10 = 0
     /\ out # None) =>
        /\ Unwrap(out).ok
        /\ F64Eq(Unwrap(Unwrap(out).val).lat, arg.coord.lat)
        /\ F64Eq(Unwrap(Unwrap(out).val).lng, arg.coord.lng)

\* C15: for every coordinate c of whole arc-seconds with |lat| <= 90 and
\* |lng| <= 180, Coord::parse of the text of Coord::write(c) returns c; the
\* written minutes and seconds are in 0..59 and degrees*3600 + minutes*60 +
\* seconds is |c| in arc-seconds rounded to the nearest integer.
C15_CoordRoundTrip == C15_WrittenFields /\ C15_ParsedBack

\* |x| <= n
AtMost(x, n) == Trunc(x) < n \/ (Trunc(x) = n /\ IsWhole(x))

\* The number of a degrees field, -1 for an empty one.
DegreesOf(field) == ParseUnsigned(field, U16Max)

C18_ParsedCoordInRange ==
    (arg.type = "CoordText" /\ out # None /\ Unwrap(out).ok) =>
        /\ AtMost(Unwrap(Unwrap(out).val).lat, 90)
        /\ AtMost(Unwrap(Unwrap(out).val).lng, 180)

(* DA records *)

\* The field is a number of the closed range [0, 360].
InAngleRange(field) == field.kind = "num" /\ field.tenths >= 0 /\ field.tenths <= 3600

\* C20: a DA record is accepted only if it has exactly three numeric
\* fields and both angle fields lie in [0, 360]; 0 and 360 are accepted and
\* the radius is not range-checked.
C20_ArcSegmentAccepted ==
    (arg.type = "ArcSegmentLine" /\ out # None) =>
        (Unwrap(out).ok <=>
            /\ Len(arg.fields) = 3
            /\ \A i \in 1..3 : arg.fields[i].kind # "bad"
            /\ InAngleRange(arg.fields[2])
            /\ InAngleRange(arg.fields[3]))


-----------------------------------------------------------------------------
(* write followed by parse *)

\* write(writer, airspaces) is called on a list of airspaces.
WriteInit ==
    /\ airspaces \in AirspaceLists
    /\ written_count = 0
    /\ writer = <<>>
    /\ input = <<>>
    /\ pos = 0
    /\ line = EmptyLine
    /\ use_buffered_line = FALSE
    /\ acc = EmptyAcc
    /\ pc = "write"
    /\ results = <<>>
    /\ fed = <<>>
    /\ mark = 0
    /\ NoCall

\* One pass of the loop of write.
WriteAirspace ==
    /\ pc = "write"
    /\ written_count < Len(airspaces)
    /\ writer' = writer \o Separator(written_count)
                        \o AirspaceWrite(airspaces[written_count + 1])
    /\ written_count' = written_count + 1
    /\ UNCHANGED <<airspaces, parse_vars, call_vars>>

\* write has returned; parse(reader) is called on the bytes written:
\* OpenAirIterator::new reads the first line into the buffer.
Open ==
    /\ pc = "write"
    /\ written_count = Len(airspaces)
    /\ input' = [k \in DOMAIN ReadLines(writer) |-> Lex(ReadLines(writer)[k])]
    /\ pos' = IF writer = <<>> THEN 0 ELSE 1
    /\ line' = IF writer = <<>> THEN EmptyLine ELSE Lex(ReadLines(writer)[1])
    /\ use_buffered_line' = TRUE
    /\ pc' = "idle"
    /\ UNCHANGED <<acc, results, fed, mark, write_vars, call_vars>>

WriteNext ==
    \/ WriteAirspace
    \/ Open
    \/ Pull
    \/ UseBufferedLine
    \/ ReadLine
    \/ ReachedEof

RoundTrip == WriteInit /\ [][WriteNext]_vars


-----------------------------------------------------------------------------
(* The bytes written *)

\* What the pass of the loop of write that is being taken adds to the
\* writer.
Appended == SubSeq(writer', Len(writer) + 1, Len(writer'))

IsBlank(text) == text = CrLf

\* The record lines of a text: its lines other than the blank ones.
RecordLines(w) == SelectSeq(ReadLines(w), LAMBDA l : ~IsBlank(l))

\* The record type a written line starts with.
LineTag(l) ==
    IF Len(l) < 4 THEN "?"
    ELSE IF Take(l, 4) = <<"V", " ", "X", "=">> THEN "VX"
    ELSE IF Take(l, 4) = <<"V", " ", "D", "=">> THEN "VD"
    ELSE IF l[3] = " " THEN Str(Take(l, 2))
    ELSE "?"

\* What a written line holds between its record type and the CR LF.
LinePayload(l) ==
    SubSeq(l, IF LineTag(l) \in {"VX", "VD"} THEN 5 ELSE 4, Len(l) - 2)

IfPresent(field, tag) == IF IsSome(field) THEN <<tag>> ELSE <<>>

\* The record types of the header of an airspace, in the order of the
\* format.
HeaderTags(a) ==
    <<"AC">> \o IfPresent(a.type_, "AY") \o <<"AN", "AL", "AH">>
    \o IfPresent(a.frequency, "AF") \o IfPresent(a.call_sign, "AG")
    \o IfPresent(a.transponder_code, "AX") \o IfPresent(a.activation_times, "AA")

SegmentTags(segment) ==
    CASE segment.kind = "Point"      -> <<"DP">>
      [] segment.kind = "ArcSegment" -> <<"VX", "VD", "DA">>
      [] segment.kind = "Arc"        -> <<"VX", "VD", "DB">>

GeometryTags(geom) ==
    IF geom.kind = "Circle" THEN <<"VX", "DC">>
    ELSE Flatten([i \in DOMAIN geom.segments |-> SegmentTags(geom.segments[i])])

\* The number of lines written before the group of segment i of a polygon.
LinesBefore(a, i) ==
    Len(HeaderTags(a))
    + Len(Flatten([j \in 1..(i - 1) |-> SegmentTags(a.geom.segments[j])]))

\* The V X and V D lines at n+1 and n+2 are those of this centerpoint and
\* direction.
OwnVariables(ls, n, centerpoint, direction) ==
    /\ LinePayload(ls[n + 1]) = CoordWrite(centerpoint)
    /\ LinePayload(ls[n + 2]) = IF direction = "Cw" THEN <<"+">> ELSE <<"-">>

\* The lines ls are those of airspace a: the header in the fixed order, then
\* the geometry, every arc with the variables of its own.
EmitsInOrder(a, ls) ==
    /\ [i \in DOMAIN ls |-> LineTag(ls[i])] = HeaderTags(a) \o GeometryTags(a.geom)
    /\ a.geom.kind = "Circle" =>
           LinePayload(ls[Len(HeaderTags(a)) + 1]) = CoordWrite(a.geom.centerpoint)
    /\ a.geom.kind = "Polygon" =>
           \A i \in DOMAIN a.geom.segments :
               a.geom.segments[i].kind \in {"ArcSegment", "Arc"} =>
                   OwnVariables(ls, LinesBefore(a, i),
                                a.geom.segments[i].centerpoint,
                                a.geom.segments[i].direction)

\* C12: Airspace::write emits the records of one airspace in the order AC,
\* AY (if present), AN, AL, AH, AF, AG, AX, AA (each if present), then the
\* geometry: V X and DC for a circle; for a polygon one group per segment in
\* segment order, DP for a point, and V X, V D (of the segment's own
\* centerpoint and direction) and DA or DB for an arc.
C12_RecordOrder ==
    [][written_count' = written_count + 1
          => EmitsInOrder(airspaces[written_count'], RecordLines(Appended))]_vars

\* The full circle and the polygon with its three arcs have been written.
C12_Witness ==
    /\ pc = "write"
    /\ airspaces = <<FullCircle, Arcs>>
    /\ written_count = 2

\* The indices of the blank lines of a text.
BlankLines(w) == {k \in DOMAIN ReadLines(w) : IsBlank(ReadLines(w)[k])}

\* The indices of the lines of a text that open an airspace.
ClassLines(w) == {k \in DOMAIN ReadLines(w) : LineTag(ReadLines(w)[k]) = "AC"}

EndsWithCrLf(l) == Len(l) >= 2 /\ SubSeq(l, Len(l) - 1, Len(l)) = CrLf

\* C13: every line that write writes ends with CR LF; there is exactly one
\* blank line between consecutive airspaces, none before the first and none
\* after the last; nothing is written for no airspace, and n - 1 blank lines
\* for n >= 1 airspaces.
C13_LineEndsAndBlankLines ==
    /\ \A k \in DOMAIN ReadLines(writer) : EndsWithCrLf(ReadLines(writer)[k])
    /\ written_count = 0 => writer = <<>>
    /\ written_count >= 1 => Cardinality(BlankLines(writer)) = written_count - 1
    /\ Cardinality(ClassLines(writer)) = written_count
    /\ 1 \notin BlankLines(writer)
    /\ Len(ReadLines(writer)) \notin BlankLines(writer)
    /\ \A k \in BlankLines(writer) : k + 1 \in ClassLines(writer)
    /\ \A k \in ClassLines(writer) : k > 1 => k - 1 \in BlankLines(writer)

\* write has written two airspaces and returned.
C13_Witness ==
    /\ pc = "write"
    /\ Len(airspaces) = 2
    /\ written_count = 2
    /\ Cardinality(BlankLines(writer)) = 1

\* C16: parsing the bytes that write wrote for a list of airspaces yields
\* the airspaces of the list, as many and in the same order, each equal to
\* the one written.  (No coordinate of the model is a negative zero, so
\* that equal numbers are the same value.)
C16_FileRoundTrip ==
    (written_count = Len(airspaces) /\ Exhausted) =>
        UpToNone(results) =
            [i \in 1..(Len(airspaces) + 1) |->
                IF i <= Len(airspaces) THEN ItemOk(airspaces[i]) ELSE ItemNone]

-----------------------------------------------------------------------------
(* Altitude notation *)

\* The same altitude text with the unit in lower case and the keyword
\* replaced by the first of its synonyms, AMSL or AGL.
Canonical(a) ==
    [a EXCEPT !.unit = Part(ToLower(a.unit.txt), a.unit.meaning),
              !.keyword = IF a.keyword.meaning = "amsl"
                          THEN Part(<<"A", "M", "S", "L">>, "amsl")
                          ELSE Part(<<"A", "G", "L">>, "agl"),
              !.sep1 = IF a.unit.meaning = "none" /\ a.keyword = NoKeyword
                       THEN <<" ">> ELSE a.sep1,
              !.sep2 = IF a.unit.meaning # "none" /\ a.keyword = NoKeyword
                       THEN <<" ">> ELSE a.sep2]

\* What the parts of an altitude text stand for: the magnitude in feet, or
\* converted from metres, above mean sea level or above ground.
MeaningOf(a) ==
    IF a.unit.meaning = "m" /\ ~M2ft(a.magnitude.meaning).ok
    THEN PErr(M2ft(a.magnitude.meaning).err)
    ELSE IF a.keyword.meaning = "amsl"
    THEN POk(FeetAmsl(IF a.unit.meaning = "m"
                      THEN Unwrap(M2ft(a.magnitude.meaning).val)
                      ELSE a.magnitude.meaning))
    ELSE POk(FeetAgl(IF a.unit.meaning = "m"
                     THEN Unwrap(M2ft(a.magnitude.meaning).val)
                     ELSE a.magnitude.meaning))

WordsEquivalent ==
    (arg.type = "AltitudeWord" /\ out # None) => Unwrap(out) = POk(arg.altitude)

(* C21 as stated: for every magnitude and every unit form, with or without *)
(* whitespace between them, Altitude::parse returns the same value when    *)
(* the reference keyword is replaced by a synonym (none, AMSL, MSL; AGL,   *)
(* GND, SFC) or the letter case of unit or keyword is changed; GND and SFC *)
(* alone give Ground and UNL, UNLIM, UNLTD, UNLIMITED alone give Unlimited *)
(* in any letter case.                                                     *)
C21_SynonymsEquivalent ==
    /\ (arg.type = "AltitudeText" /\ out # None) =>
            Unwrap(out) = AltitudeParse(AltitudeTextOf(Canonical(arg)))
    /\ WordsEquivalent

(* C21, amended: the same for every magnitude that fits an i32, except     *)
(* that the text 0 alone, without unit and keyword, is Ground; the value   *)
(* is then the magnitude in feet, converted when the unit is m, above mean *)
(* sea level or above ground, or the failure of the conversion.            *)
C21_SynonymsEquivalentButBareZero ==
    /\ (/\ arg.type = "AltitudeText"
        /\ out # None
        /\ arg.magnitude.meaning >= 0
        /\ AltitudeTextOf(arg) # <<"0">>) =>
            /\ Unwrap(out) = AltitudeParse(AltitudeTextOf(Canonical(arg)))
            /\ Unwrap(out) = MeaningOf(arg)
    /\ (arg.type = "AltitudeText" /\ out # None /\ AltitudeTextOf(arg) = <<"0">>) =>
            Unwrap(out) = POk(Gnd)
    /\ WordsEquivalent

\* 100 M SFC has been parsed: 328 feet above ground.
C21_Witness ==
    /\ arg.type = "AltitudeText"
    /\ arg.magnitude.meaning = 100
    /\ arg.unit.txt = <<"M">>
    /\ arg.keyword.txt = <<"S", "F", "C">>
    /\ out = Some(POk(FeetAgl(328)))

\* What Altitude::parse is to give for the payload of a bound.
BoundOf(data) ==
    IF data \in Unclassified THEN Other(data)
    ELSE IF data = gnd THEN Gnd
    ELSE Unlimited

(* C22: altitude notation that cannot be classified is never an error: an  *)
(* AL or AH payload with an unknown unit, an unknown reference keyword,    *)
(* text that is no number, FL not followed by a valid integer, or a        *)
(* magnitude that does not fit the integer type gives Other with the       *)
(* payload unchanged, and the airspace is still assembled.                 *)
C22_UnclassifiedIsOther ==
    (input \in BoundsFiles) =>
        /\ \A i \in DOMAIN results : results[i].kind # "Err"
        /\ acc.lower_bound \in {None, Some(BoundOf(input[3].data))}
        /\ acc.upper_bound \in {None, Some(BoundOf(input[4].data))}
        /\ Exhausted =>
               UpToNone(results) =
                   <<ItemOk(Airspace("A", n1, BoundOf(input[3].data), BoundOf(input[4].data),
                                     Polygon(<<[kind |-> "Point", coord |-> Unwrap(CoordParse(c1).val)]>>))),
                     ItemNone>>

\* An airspace whose two bounds are unclassified has been yielded.
C22_Witness ==
    /\ input = BoundsFile(<<"1", "0", "0", "0", "x", "y", "z">>, <<"F", "L", "x">>)
    /\ Exhausted
    /\ results[1].kind = "Ok"

-----------------------------------------------------------------------------
(* Record types *)

\* The record types of the grammar.
KnownTags ==
    {<<"A", "C">>, <<"A", "N">>, <<"A", "L">>, <<"A", "H">>, <<"A", "T">>, <<"A", "Y">>,
     <<"A", "F">>, <<"A", "G">>, <<"A", "X">>, <<"A", "A">>, <<"S", "P">>, <<"S", "B">>,
     <<"V", "X">>, <<"V", "D">>, <<"D", "P">>, <<"D", "C">>, <<"D", "A">>, <<"D", "B">>}

UnexpectedTag(t1, t2) == PErr("Parse error (unexpected \"" \o t1 \o t2 \o "\")")

IsUnknownExtension(p) == p.ok /\ Unwrap(p.val).kind = "UnknownExtension"

(* C23: a line whose two-character tag starts with A and is none of AC,    *)
(* AN, AL, AH, AT, AY, AF, AG, AX, AA is recognized as an unknown          *)
(* extension that holds the trimmed line verbatim, and Record::write       *)
(* writes that line unchanged; a line whose tag is no known tag and starts *)
(* with neither A nor an asterisk fails with a message naming the two tag  *)
(* characters; a line with a known tag or an asterisk is neither.          *)
C23_UnknownTags ==
    (arg.type = "TagLine" /\ out # None) =>
        IF arg.t1 = "A" /\ <<arg.t1, arg.t2>> \notin KnownTags
        THEN /\ Unwrap(out) = POk(Rec("UnknownExtension", arg.body))
             /\ pc = "wrote" => writer = arg.body \o CrLf
        ELSE IF arg.t1 # "*" /\ <<arg.t1, arg.t2>> \notin KnownTags
        THEN Unwrap(out) = UnexpectedTag(arg.t1, arg.t2)
        ELSE /\ ~IsUnknownExtension(Unwrap(out))
             /\ \A t1, t2 \in {arg.t1, arg.t2} : Unwrap(out) # UnexpectedTag(t1, t2)

\* An unknown extension with text after its tag, surrounded by whitespace,
\* has been recognized and written.
C23_Witness ==
    /\ arg.type = "TagLine"
    /\ arg.body = <<"A", "B", " ", "s", "o", "m", "e", " ", " ", "t", "e", "x", "t">>
    /\ arg.lead = <<" ", " ">>
    /\ arg.trail = <<"\r", "\n">>
    /\ pc = "wrote"
    /\ writer = <<"A", "B", " ", "s", "o", "m", "e", " ", " ", "t", "e", "x", "t", "\r", "\n">>

-----------------------------------------------------------------------------
(* Failure messages *)

\* The text before and after an airspace name in the messages that cite one.
BeforeName == {"Missing lower bound for '", "Missing upper bound for '", "Missing geom for '"}

AfterName == {"'"}

\* The message cites this airspace name.
Mentions(msg, name) ==
    \E before \in BeforeName, after \in AfterName : msg = before \o Str(name) \o after

(* C24: every failure the iterator returns while the name of the airspace  *)
(* under assembly is set contains that name: malformed records, duplicate  *)
(* fields, geometry conflicts and missing centerpoints as well as fields   *)
(* missing at finish.                                                      *)
C24_FailuresCiteName ==
    [][(/\ Len(results') > Len(results)
        /\ Last(results').kind = "Err"
        /\ IsSome(acc.name))
           => Mentions(Last(results').msg, Unwrap(acc.name))]_vars

\* Only the failures for a field missing at finish cite the name.
C24_OnlyMissingFieldCitesName ==
    [][(/\ Len(results') > Len(results)
        /\ Last(results').kind = "Err"
        /\ IsSome(acc.name))
           => (Mentions(Last(results').msg, Unwrap(acc.name))
                  <=> (FinishingStep /\ ~AllPresent))]_vars

-----------------------------------------------------------------------------
(* A reader whose reads may fail: `input` holds what each call of          *)
(* read_until returns, a line or a failure                                 *)

\* f with x put in as its k-th element.
Insert(f, k, x) == SubSeq(f, 1, k - 1) \o <<x>> \o SubSeq(f, k, Len(f))

\* Two well-formed airspaces.
TwoAirspaces == MinimalBody \o FullHeader \o <<DP(c2)>>

\* Files with one read that fails, at any place from the first read to the
\* read after the last line, and with two.
FailingFiles ==
    UNION {{Insert(f, k, ReadError("broken pipe")) : k \in 1..(Len(f) + 1)} :
              f \in {<<>>, MinimalBody, TwoAirspaces}}
    \cup {Insert(Insert(TwoAirspaces, k, ReadError("broken pipe")), k, ReadError("timed out")) :
            k \in {1, 3, 6}}

\* OpenAirIterator::new: `use_buffered_line = result.is_ok()`; after a
\* failure the buffer holds the bytes read before it, which are never
\* parsed (the loop clears the buffer before it reads).
FailingInit ==
    /\ input \in FailingFiles
    /\ pos = 1
    /\ line = IF IsReadError(input[1]) THEN EmptyLine ELSE input[1]
    /\ use_buffered_line = ~IsReadError(input[1])
    /\ acc = EmptyAcc
    /\ pc = "idle"
    /\ results = <<>>
    /\ fed = <<>>
    /\ mark = 0
    /\ NothingWritten
    /\ NoCall

\* `result.map_err(|e| format!("Could not read line: {e}"))?`
CouldNotRead(e) == ItemErr("Could not read line: " \o e)

\* The read fails: next_airspace returns the failure.
ReadFails ==
    /\ pc = "loop"
    /\ ~use_buffered_line
    /\ pos < Len(input)
    /\ IsReadError(input[pos + 1])
    /\ pos' = pos + 1
    /\ line' = EmptyLine
    /\ results' = Append(results, CouldNotRead(input[pos + 1].error))
    /\ pc' = "idle"
    /\ UNCHANGED <<input, use_buffered_line, acc, fed, mark>>
    /\ UNCHANGED <<write_vars, call_vars>>

FailingNext == Pull \/ UseBufferedLine \/ ReadLine \/ ReadFails \/ ReachedEof

FailingReads == FailingInit /\ [][FailingNext]_vars

\* The reads done so far that failed.
FailedReads == {i \in 1..pos : IsReadError(input[i])}

(* C25: a failure of a read is fatal and visible.  The failure of any      *)
(* read, the first one done when the iterator is created included, is      *)
(* returned to the caller as a failure, and no airspace is yielded from    *)
(* lines read after it.                                                    *)
C25_ReadFailureIsFatal ==
    [][/\ (pos' = pos + 1 /\ IsReadError(input[pos']))
            => Returns(CouldNotRead(input[pos'].error))
       /\ (results = <<>> /\ results' # <<>> /\ IsReadError(input[1]))
            => results'[1] = CouldNotRead(input[1].error)
       /\ (Len(results') > Len(results) /\ Last(results').kind = "Ok")
            => FailedReads = {}]_vars

\* A failure of a read inside next_airspace is returned.
C25_LoopReadFailureReturned ==
    [][(pos' = pos + 1 /\ IsReadError(input[pos']))
            => Returns(CouldNotRead(input[pos'].error))]_vars

\* The failure of the first read is never returned.
C25_FirstReadFailureReturned ==
    [][(results = <<>> /\ results' # <<>> /\ IsReadError(input[1]))
            => results'[1] = CouldNotRead(input[1].error)]_vars

\* No airspace is yielded once a read inside next_airspace has failed.
C25_NoAirspaceAfterLoopFailure ==
    [][(Len(results') > Len(results) /\ Last(results').kind = "Ok")
            => \A i \in FailedReads : i = 1]_vars

-----------------------------------------------------------------------------
(* The class declaration as a once-only field *)

CouldNotSetClass == ItemErr("Could not set class (already defined)")

(* C26: class is a once-only field.  A class declaration taken while the   *)
(* class of the airspace under assembly is set makes the pull fail with    *)
(* 'Could not set class (already defined)'.                                *)
C26_SecondClassFails ==
    [][(pc = "loop" /\ IsSome(acc.class) /\ IncomingKind = "AirspaceClass")
            => Returns(CouldNotSetClass)]_vars

(* C26, amended: a class once set is never overwritten, and a class        *)
(* declaration taken while the class is set is never refused as a          *)
(* duplicate: it ends the airspace under assembly.  The pull returns that  *)
(* airspace, or the failure for its first absent field, and the            *)
(* declaration is kept in the buffer for the next pull.  No pull returns   *)
(* 'Could not set class (already defined)'.                                *)
C26_SecondClassEndsAirspace ==
    [][/\ (pc = "loop" /\ IsSome(acc.class)) => acc'.class = acc.class
       /\ (pc = "loop" /\ IsSome(acc.class) /\ IncomingKind = "AirspaceClass") =>
            /\ Returns(Finish(acc))
            /\ Last(results') # CouldNotSetClass
            /\ use_buffered_line'
            /\ line' = Unwrap(Incoming)
       /\ \A i \in DOMAIN results' : results'[i] # CouldNotSetClass]_vars

\* A second class declaration has ended an airspace of another class and
\* waits in the buffer.
C26_Witness ==
    /\ pc = "idle"
    /\ use_buffered_line
    /\ IsAC(line)
    /\ results # <<>>
    /\ Last(results).kind = "Ok"
    /\ acc.class = Some(Unwrap(Last(results).airspace).class)
    /\ ParseLine(line).ok
    /\ Unwrap(ParseLine(line).val).val # Unwrap(acc.class)

-----------------------------------------------------------------------------
(* The carry-over variables and the geometry *)

\* The geometry lines among the lines numbered G, and the k-th of them.
GeometryLines(G) == {i \in G : IsGeometryLine(input[i])}

NthGeometryLine(G, k) ==
    CHOOSE i \in GeometryLines(G) :
        Cardinality({j \in GeometryLines(G) : j <= i}) = k

\* The lines with this tag among those of G before line i.
Preceding(G, tag, i) == {j \in Tagged(input, G, tag) : j < i}

MostRecent(S) == CHOOSE j \in S : \A l \in S : l <= j

\* The value of the record of line i.
ValueOf(i) == Unwrap(ParseLine(input[i]).val).val

\* The centerpoint and the direction in force at line i.
CenterpointAt(G, i) == ValueOf(MostRecent(Preceding(G, <<"V", "X">>, i)))

DirectionAt(G, i) ==
    IF Preceding(G, <<"V", "D">>, i) = {} THEN "Cw"
    ELSE ValueOf(MostRecent(Preceding(G, <<"V", "D">>, i)))

\* The geometry g carries the carry-over values in force at the geometry
\* lines of G it was built from.
CarriesAmbient(g, G) ==
    IF g.kind = "Circle"
    THEN g.centerpoint = CenterpointAt(G, NthGeometryLine(G, 1))
    ELSE \A k \in DOMAIN g.segments :
            g.segments[k].kind \in {"Arc", "ArcSegment"} =>
                /\ g.segments[k].centerpoint = CenterpointAt(G, NthGeometryLine(G, k))
                /\ g.segments[k].direction = DirectionAt(G, NthGeometryLine(G, k))

(* C27: each circle, arc and arc segment of a yielded airspace carries the *)
(* centerpoint of the most recent V X record consumed before its own       *)
(* geometry record in the same pull, each arc and arc segment the          *)
(* direction of the most recent V D record before it, or Clockwise when    *)
(* there is none; a V X or V D record appends no segment and leaves the    *)
(* geometry already built as it is.                                        *)
C27_GeometryCarriesAmbient ==
    [][/\ (Len(results') > Len(results) /\ Last(results').kind = "Ok")
            => CarriesAmbient(Unwrap(Last(results').airspace).geom, PullLines)
       /\ (pc = "loop" /\ IncomingKind \in {"VarX", "VarD"})
            => /\ acc'.geom = acc.geom
               /\ pc' = "loop"
               /\ results' = results]_vars

\* An airspace has been yielded whose arcs and arc segment have different
\* centerpoints and different directions.
C27_Witness ==
    /\ results # <<>>
    /\ Last(results).kind = "Ok"
    /\ LET g == Unwrap(Last(results).airspace).geom
       IN  /\ g.kind = "Polygon"
           /\ Len(g.segments) = 3
           /\ \A k \in 1..3 : g.segments[k].kind \in {"Arc", "ArcSegment"}
           /\ g.segments[1].centerpoint # g.segments[3].centerpoint
           /\ g.segments[1].direction # g.segments[2].direction

-----------------------------------------------------------------------------
(* Records before the first class declaration *)

\* A record that is not ignored has been consumed by the pull in progress.
AccumulationInProgress == \E i \in PullLines : Accumulates(input[i])

(* C28: a class declaration recognized after a non-ignorable record has    *)
(* been consumed into the accumulator finishes that accumulator first,     *)
(* also when no class is set yet: the records that precede the first class *)
(* declaration of the input are never merged into the airspace that this   *)
(* declaration starts.                                                     *)
C28_ClassDeclarationFinishesFirst ==
    [][/\ (pc = "loop" /\ IncomingKind = "AirspaceClass" /\ AccumulationInProgress)
            => pc' = "idle" /\ Len(results') = Len(results) + 1
       /\ (Len(results') > Len(results) /\ Last(results').kind = "Ok")
            => \A i \in PullLines : Accumulates(input[i]) =>
                    \E j \in PullLines : j <= i /\ IsAC(input[j])]_vars

\* With a class set, a class declaration always ends the pull.
C28_FinishesFirstWhenClassSet ==
    [][(pc = "loop" /\ IncomingKind = "AirspaceClass" /\ IsSome(acc.class))
            => pc' = "idle" /\ Len(results') = Len(results) + 1]_vars

-----------------------------------------------------------------------------
(* The end of the sequence *)

\* The results that are not None.
Produced == {i \in DOMAIN results : results[i].kind # "None"}

(* C29: the sequence is finite and ends for good.  For an input of L lines *)
(* the iterator returns None after at most L + 1 results: every result     *)
(* that is not None has consumed at least one new line, an airspace a      *)
(* class declaration of its own; once None has been returned, every later  *)
(* pull returns None.                                                      *)
C29_EndsForGood ==
    [][/\ Cardinality(Produced) <= Len(input)
       /\ \A i, j \in DOMAIN results' :
            (i < j /\ results'[i].kind = "None") => results'[j] = ItemNone
       /\ (Len(results') > Len(results) /\ Last(results').kind # "None")
            => /\ mark' < Len(fed')
               /\ \A i \in 1..mark' : \A j \in (mark' + 1)..Len(fed') : fed'[i] < fed'[j]
       /\ (Len(results') > Len(results) /\ Last(results').kind = "Ok")
            => \E j \in (mark' + 1)..Len(fed') : IsAC(input[fed'[j]])
       /\ (pc = "loop" /\ Exhausted) => Returns(ItemNone)]_vars

\* Every line of a file of two lines has given a result, and the pull after
\* the first None has returned None again.
C29_Witness ==
    /\ pc = "idle"
    /\ Len(input) = MaxLines
    /\ Cardinality(Produced) = Len(input)
    /\ NoneCount = 2
    /\ results[Len(input) + 1] = ItemNone

-----------------------------------------------------------------------------
(* The coordinates of a DB record *)

\* Coord::parse accepts each of these texts on its own.
AllAccepted(coords) == \A i \in DOMAIN coords : CoordParse(coords[i]).ok

\* The arc record with these two coordinates as start and end.
ArcOf(coords) ==
    POk(Rec("ArcData", [start |-> Unwrap(CoordParse(coords[1]).val),
                        end   |-> Unwrap(CoordParse(coords[2]).val)]))

\* Record::parse has been applied to a DB line.
ArcLineParsed == arg.type = "ArcLine" /\ out # None

(* C30: a DB record accepts in each of its two coordinate positions every  *)
(* notation that Coord::parse accepts on its own, the one with a comma     *)
(* between latitude and longitude included; the two coordinates become the *)
(* start and the end of the arc, in that order; any other number of        *)
(* coordinates is a failure.                                               *)
C30_ArcTakesTwoCoordinates ==
    ArcLineParsed =>
        IF Len(arg.coords) = 2 /\ AllAccepted(arg.coords)
        THEN Unwrap(out) = ArcOf(arg.coords)
        ELSE ~Unwrap(out).ok

\* A coordinate text without a comma.
NoComma(txt) == \A i \in DOMAIN txt : txt[i] # ","

\* The same for the DB lines whose coordinates are written without a comma.
C30_ArcTakesTwoCoordinatesWithoutComma ==
    (ArcLineParsed /\ \A i \in DOMAIN arg.coords : NoComma(arg.coords[i]))
        => C30_ArcTakesTwoCoordinates

\* A DB line with a coordinate that has a comma is always refused.
C30_CommaRefused ==
    (ArcLineParsed /\ \E i \in DOMAIN arg.coords : ~NoComma(arg.coords[i]))
        => ~Unwrap(out).ok

====
